---- MODULE Spec2Model ----
(***************************************************************************)
(* Model of edgeml/pytorch/graph/rnn.py: the nonlinearity selector, the    *)
(* five recurrent cells, the sequence unroller BaseRNN and the FastGRNN /  *)
(* FastRNN sparsification operations.                                      *)
(*                                                                         *)
(* Numbers are exact rationals <<numerator, denominator>> in lowest terms. *)
(* A 2-D tensor is a record [shape |-> <<rows, cols>>, v |-> rows of       *)
(* entries]; a 3-D tensor has a shape of three and v nested one deeper.    *)
(* An operation that raises in Python yields a record [err |-> kind].      *)
(***************************************************************************)
EXTENDS Integers, Sequences, FiniteSets, TLC

\* ------------------------------------------------------------------------
\* Exact arithmetic (the tensor library's +, -, *, /, comparisons)
\* ------------------------------------------------------------------------
Abs(n) == IF n < 0 THEN -n ELSE n

RECURSIVE GCD(_, _)
GCD(a, b) == IF b = 0 THEN a ELSE GCD(b, a % b)

Norm(n, d) ==
    LET g == GCD(Abs(n), d) IN << n \div g, d \div g >>

R(n) == << n, 1 >>

\* sums and products cancel common factors before they multiply
RAdd(x, y) ==
    LET g == GCD(x[2], y[2])
    IN Norm(x[1] * (y[2] \div g) + y[1] * (x[2] \div g), (x[2] \div g) * y[2])

RSub(x, y) == RAdd(x, << -y[1], y[2] >>)

RMul(x, y) ==
    LET g == GCD(Abs(x[1]), y[2])
        h == GCD(Abs(y[1]), x[2])
    IN << (x[1] \div g) * (y[1] \div h), (x[2] \div h) * (y[2] \div g) >>

RDivInt(x, k) == Norm(x[1], x[2] * k)

RLess(x, y) == x[1] * y[2] < y[1] * x[2]

RMin(x, y) == IF RLess(y, x) THEN y ELSE x

RMax(x, y) == IF RLess(x, y) THEN y ELSE x

RAbs(x) == << Abs(x[1]), x[2] >>

\* ------------------------------------------------------------------------
\* Tensors
\* ------------------------------------------------------------------------
ShapeMismatch == [err |-> "ShapeMismatch"]

TypeError == [err |-> "TypeError"]

IsErr(x) == "err" \in DOMAIN x

Tensor2(r, c, F(_, _)) ==
    [shape |-> << r, c >>,
     v |-> [i \in 1..r |-> [j \in 1..c |-> F(i, j)]]]

Tensor3(a, b, c, F(_, _, _)) ==
    [shape |-> << a, b, c >>,
     v |-> [i \in 1..a |-> [j \in 1..b |-> [k \in 1..c |-> F(i, j, k)]]]]

\* torch.zeros([r, c])
Zeros2(r, c) == LET Z(i, j) == R(0) IN Tensor2(r, c, Z)

\* torch.zeros([a, b, c])
Zeros3(a, b, c) == LET Z(i, j, k) == R(0) IN Tensor3(a, b, c, Z)

\* torch.ones([r, c])
Ones2(r, c) == LET O(i, j) == R(1) IN Tensor2(r, c, O)

\* torch.transpose(A, 0, 1)
Transpose(A) ==
    IF IsErr(A) THEN A
    ELSE LET F(i, j) == A.v[j][i] IN Tensor2(A.shape[2], A.shape[1], F)

RECURSIVE Dot(_, _, _, _, _)
Dot(A, B, i, j, k) ==
    IF k = 0 THEN R(0)
    ELSE RAdd(Dot(A, B, i, j, k - 1), RMul(A.v[i][k], B.v[k][j]))

\* torch.matmul(A, B) on 2-D operands: the inner dimensions must agree
Matmul(A, B) ==
    IF IsErr(A) THEN A
    ELSE IF IsErr(B) THEN B
    ELSE IF A.shape[2] # B.shape[1] THEN ShapeMismatch
    ELSE LET F(i, j) == Dot(A, B, i, j, A.shape[2])
         IN Tensor2(A.shape[1], B.shape[2], F)

BroadcastOK(m, n) == m = n \/ m = 1 \/ n = 1

BroadcastDim(m, n) == IF m = 1 THEN n ELSE m

BIdx(n, i) == IF n = 1 THEN 1 ELSE i

\* an elementwise binary operation with torch's broadcasting rule
Elementwise(Op(_, _), A, B) ==
    IF IsErr(A) THEN A
    ELSE IF IsErr(B) THEN B
    ELSE IF ~(BroadcastOK(A.shape[1], B.shape[1])
              /\ BroadcastOK(A.shape[2], B.shape[2])) THEN ShapeMismatch
    ELSE LET F(i, j) == Op(A.v[BIdx(A.shape[1], i)][BIdx(A.shape[2], j)],
                           B.v[BIdx(B.shape[1], i)][BIdx(B.shape[2], j)])
         IN Tensor2(BroadcastDim(A.shape[1], B.shape[1]),
                    BroadcastDim(A.shape[2], B.shape[2]), F)

TAdd(A, B) == Elementwise(RAdd, A, B)

TMul(A, B) == Elementwise(RMul, A, B)

\* an elementwise unary operation
Map(Op(_), A) ==
    IF IsErr(A) THEN A
    ELSE LET F(i, j) == Op(A.v[i][j]) IN Tensor2(A.shape[1], A.shape[2], F)

\* 1.0 - z
OneMinus(A) == LET F(x) == RSub(R(1), x) IN Map(F, A)

\* torch.sigmoid and torch.tanh are transcendental; they are represented by
\* the rational maps of the same shape (odd about the centre, strictly
\* increasing, the same limits, sigmoid(0) = 1/2, tanh(0) = 0).
tanh(x) == Norm(x[1], x[2] + Abs(x[1]))

sigmoid(x) == RDivInt(RAdd(R(1), tanh(x)), 2)

TSigmoid(A) == Map(sigmoid, A)

\* ------------------------------------------------------------------------
\* gen_nonlinearity
\* ------------------------------------------------------------------------
\* Python's None, and an optional value that is present
None == << >>

Some(x) == << x >>

\* user-supplied elementwise callables the model passes as nonlinearity
Callables == {"lambda_identity", "lambda_negate"}

callable(nl) == nl \in Callables

CallNonlinearity(nl, A) ==
    LET Id(x) == x
        Neg(x) == RSub(R(0), x)
    IN IF nl = "lambda_identity" THEN Map(Id, A) ELSE Map(Neg, A)

\* Clip without the lower bound: torch.min(A, hi * ones_like(A)) alone
Clip_minOnly(A, lo, hi) ==
    LET F(x) == RMin(x, R(hi)) IN Map(F, A)

\* torch.max(torch.min(A, hi * ones_like(A)), lo * ones_like(A))
Clip(A, lo, hi) ==
    LET F(x) == RMax(RMin(x, R(hi)), R(lo)) IN Map(F, A)

gen_nonlinearity(A, nonlinearity) ==
    IF IsErr(A) THEN A
    ELSE IF nonlinearity = "tanh" THEN Map(tanh, A)
    ELSE IF nonlinearity = "sigmoid" THEN Map(sigmoid, A)
    ELSE IF nonlinearity = "relu" THEN TypeError  \* torch.relu(A, 0.0): one argument too many
    ELSE IF nonlinearity = "quantTanh" THEN Clip(A, -1, 1)
    ELSE IF nonlinearity = "quantSigm" THEN
        LET F(x) == RDivInt(RAdd(x, R(1)), 2) IN Clip(Map(F, A), 0, 1)
    ELSE IF nonlinearity = "quantSigm4" THEN
        LET F(x) == RDivInt(RAdd(x, R(2)), 4) IN Clip(Map(F, A), 0, 1)
    ELSE IF ~callable(nonlinearity) THEN TypeError  \* "..." + + "...": unary plus on a str
    ELSE CallNonlinearity(nonlinearity, A)

\* the caller's tensor once gen_nonlinearity(A, nonlinearity) is over: no branch
\* writes into the storage of A (A = (A + 1.0) / 2.0 binds the local name to a
\* new tensor, torch.min / torch.max / torch.tanh / torch.sigmoid allocate
\* their result); what a user-supplied callable does to A is the callable's
ArgAfter(A, nonlinearity) == A

\* ------------------------------------------------------------------------
\* Cell forward functions.  A cell is a record: cellType, input_size,
\* hidden_size, gate_nonlinearity, update_nonlinearity, wRank, uRank,
\* wSparsity, uSparsity, p (the owned parameters by name) and old (the
\* sparsity snapshots by name).
\* ------------------------------------------------------------------------
\* new_h = z * state + (sigmoid(zeta) * (1.0 - z) + sigmoid(nu)) * c
FastGRNNCell_new_h(self, state, z, c) ==
    TAdd(TMul(z, state),
         TMul(TAdd(TMul(TSigmoid(self.p.zeta), OneMinus(z)), TSigmoid(self.p.nu)), c))

\* the gate z and the candidate c of the pre-activation, and the new state
FastGRNNCell_gates(self, state, pre_comp) ==
    FastGRNNCell_new_h(self, state,
        gen_nonlinearity(TAdd(pre_comp, self.p.bias_gate), self.gate_nonlinearity),
        gen_nonlinearity(TAdd(pre_comp, self.p.bias_update), self.update_nonlinearity))

FastGRNNCell_forward(self, input, state) ==
    LET wComp == IF self.wRank = None
                 THEN Matmul(input, Transpose(self.p.W))
                 ELSE Matmul(Matmul(input, Transpose(self.p.W1)), Transpose(self.p.W2))
        uComp == IF self.uRank = None
                 THEN Matmul(state, Transpose(self.p.U))
                 ELSE Matmul(Matmul(state, Transpose(self.p.U1)), Transpose(self.p.U2))
    IN FastGRNNCell_gates(self, state, TAdd(wComp, uComp))

FastRNNCell_forward(self, input, state) ==
    LET wComp == IF self.wRank = None
                 THEN Matmul(input, self.p.W)
                 ELSE Matmul(Matmul(input, self.p.W1), self.p.W2)
        uComp == IF self.uRank = None
                 THEN Matmul(state, self.p.U)
                 ELSE Matmul(Matmul(state, self.p.U1), self.p.U2)
        pre_comp == TAdd(wComp, uComp)
        c == gen_nonlinearity(TAdd(pre_comp, self.p.bias_update), self.update_nonlinearity)
    IN TAdd(TMul(TSigmoid(self.p.beta), state), TMul(TSigmoid(self.p.alpha), c))

\* Project applying the two factors in the wrong order
Project_swapped(x, lowRank, shared, Wi) ==
    IF lowRank THEN Matmul(Matmul(x, Wi), shared) ELSE Matmul(x, Wi)

\* x @ Wi, or (x @ W) @ Wi when the class has a rank
Project(x, lowRank, shared, Wi) ==
    IF lowRank THEN Matmul(Matmul(x, shared), Wi) ELSE Matmul(x, Wi)

\* a Python 2-tuple (a, b)
Pair(a, b) == [first |-> a, second |-> b]

\* return new_h, new_c
LSTMLRCell_return(new_h, new_c) ==
    IF IsErr(new_c) THEN new_c
    ELSE IF IsErr(new_h) THEN new_h
    ELSE Pair(new_h, new_c)

\* new_h = o * gen_nonlinearity(new_c, update_nonlinearity)
LSTMLRCell_new_h(self, o, new_c) ==
    LSTMLRCell_return(TMul(o, gen_nonlinearity(new_c, self.update_nonlinearity)), new_c)

LSTMLRCell_forward(self, input, hiddenStates) ==
    LET h == hiddenStates.first
        c == hiddenStates.second
        wl == self.wRank # None
        ul == self.uRank # None
        W == IF wl THEN self.p.W ELSE None
        U == IF ul THEN self.p.U ELSE None
        pre_comp1 == TAdd(Project(input, wl, W, self.p.W1), Project(h, ul, U, self.p.U1))
        pre_comp2 == TAdd(Project(input, wl, W, self.p.W2), Project(h, ul, U, self.p.U2))
        pre_comp3 == TAdd(Project(input, wl, W, self.p.W3), Project(h, ul, U, self.p.U3))
        pre_comp4 == TAdd(Project(input, wl, W, self.p.W4), Project(h, ul, U, self.p.U4))
        i == gen_nonlinearity(TAdd(pre_comp1, self.p.bias_i), self.gate_nonlinearity)
        f == gen_nonlinearity(TAdd(pre_comp2, self.p.bias_f), self.gate_nonlinearity)
        o == gen_nonlinearity(TAdd(pre_comp4, self.p.bias_o), self.gate_nonlinearity)
        c_ == gen_nonlinearity(TAdd(pre_comp3, self.p.bias_c), self.update_nonlinearity)
    IN LSTMLRCell_new_h(self, o, TAdd(TMul(f, c), TMul(i, c_)))

\* new_h = z * state + (1.0 - z) * c
GRULRCell_new_h(state, z, c) == TAdd(TMul(z, state), TMul(OneMinus(z), c))

\* GRULRCell.forward with the reset gate applied to the projected state,
\* r * (state @ U3), as the class documentation writes it
GRULRCell_forward_postProjection(self, input, state) ==
    LET wl == self.wRank # None
        ul == self.uRank # None
        W == IF wl THEN self.p.W ELSE None
        U == IF ul THEN self.p.U ELSE None
        pre_comp1 == TAdd(Project(input, wl, W, self.p.W1), Project(state, ul, U, self.p.U1))
        pre_comp2 == TAdd(Project(input, wl, W, self.p.W2), Project(state, ul, U, self.p.U2))
        r == gen_nonlinearity(TAdd(pre_comp1, self.p.bias_r), self.gate_nonlinearity)
        z == gen_nonlinearity(TAdd(pre_comp2, self.p.bias_gate), self.gate_nonlinearity)
        pre_comp3 == TAdd(Project(input, wl, W, self.p.W3),
                          TMul(r, Project(state, ul, U, self.p.U3)))
        c == gen_nonlinearity(TAdd(pre_comp3, self.p.bias_update), self.update_nonlinearity)
    IN GRULRCell_new_h(state, z, c)

GRULRCell_forward(self, input, state) ==
    LET wl == self.wRank # None
        ul == self.uRank # None
        W == IF wl THEN self.p.W ELSE None
        U == IF ul THEN self.p.U ELSE None
        pre_comp1 == TAdd(Project(input, wl, W, self.p.W1), Project(state, ul, U, self.p.U1))
        pre_comp2 == TAdd(Project(input, wl, W, self.p.W2), Project(state, ul, U, self.p.U2))
        r == gen_nonlinearity(TAdd(pre_comp1, self.p.bias_r), self.gate_nonlinearity)
        z == gen_nonlinearity(TAdd(pre_comp2, self.p.bias_gate), self.gate_nonlinearity)
        pre_comp3 == TAdd(Project(input, wl, W, self.p.W3),
                          Project(TMul(r, state), ul, U, self.p.U3))
        c == gen_nonlinearity(TAdd(pre_comp3, self.p.bias_update), self.update_nonlinearity)
    IN GRULRCell_new_h(state, z, c)

\* new_h = z * state + (1.0 - z) * c
UGRNNLRCell_new_h(state, z, c) == TAdd(TMul(z, state), TMul(OneMinus(z), c))

UGRNNLRCell_forward(self, input, state) ==
    LET wl == self.wRank # None
        ul == self.uRank # None
        W == IF wl THEN self.p.W ELSE None
        U == IF ul THEN self.p.U ELSE None
        pre_comp1 == TAdd(Project(input, wl, W, self.p.W1), Project(state, ul, U, self.p.U1))
        pre_comp2 == TAdd(Project(input, wl, W, self.p.W2), Project(state, ul, U, self.p.U2))
        z == gen_nonlinearity(TAdd(pre_comp1, self.p.bias_gate), self.gate_nonlinearity)
        c == gen_nonlinearity(TAdd(pre_comp2, self.p.bias_update), self.update_nonlinearity)
    IN UGRNNLRCell_new_h(state, z, c)

\* self._RNNCell(input, state): nn.Module.__call__ dispatches to the cell's forward
CellCall(self, input, state) ==
    CASE self.cellType = "FastGRNN" -> FastGRNNCell_forward(self, input, state)
      [] self.cellType = "FastRNN" -> FastRNNCell_forward(self, input, state)
      [] self.cellType = "LSTMLR" -> LSTMLRCell_forward(self, input, state)
      [] self.cellType = "GRULR" -> GRULRCell_forward(self, input, state)
      [] self.cellType = "UGRNNLR" -> UGRNNLRCell_forward(self, input, state)

\* ------------------------------------------------------------------------
\* Sparsity utilities (edgeml.pytorch.utils)
\* ------------------------------------------------------------------------
\* the entry at flattened (row-major) index q, q in 1..numel
Flat(A, q) == A.v[((q - 1) \div A.shape[2]) + 1][((q - 1) % A.shape[2]) + 1]

numel(A) == A.shape[1] * A.shape[2]

IsZero(x) == x[1] = 0

\* ceil(s * n) for a rational s
CeilMul(s, n) == (s[1] * n + s[2] - 1) \div s[2]

\* the entries ordered before entry q: larger magnitude, or the same
\* magnitude at a smaller flattened index
Before(A, q) ==
    {t \in 1..numel(A) :
        \/ RLess(RAbs(Flat(A, q)), RAbs(Flat(A, t)))
        \/ (RAbs(Flat(A, t)) = RAbs(Flat(A, q)) /\ t < q)}

hardThreshold(A, s) ==
    LET k == CeilMul(s, numel(A))
        F(i, j) == LET q == (i - 1) * A.shape[2] + j
                   IN IF Cardinality(Before(A, q)) < k THEN A.v[i][j] ELSE R(0)
    IN Tensor2(A.shape[1], A.shape[2], F)

supportBasedThreshold(A, ref) ==
    IF A.shape # ref.shape THEN ShapeMismatch
    ELSE LET F(i, j) == IF IsZero(ref.v[i][j]) THEN R(0) ELSE A.v[i][j]
         IN Tensor2(A.shape[1], A.shape[2], F)

\* ------------------------------------------------------------------------
\* Cell construction
\* ------------------------------------------------------------------------
\* the values initialization draws from (0.1 * torch.randn, a sample)
WeightVals == << R(1), R(-1), R(2), R(-3), R(-2) >>

\* torch.randn([r, c]) for the generator state seed
Randn(seed, r, c) ==
    LET F(i, j) == WeightVals[((seed + 3 * i + j) % Len(WeightVals)) + 1]
    IN Tensor2(r, c, F)

\* k * torch.ones([r, c])
Full(r, c, k) == LET F(i, j) == R(k) IN Tensor2(r, c, F)

NoSnapshots ==
    [W_old |-> None, W1_old |-> None, W2_old |-> None,
     U_old |-> None, U1_old |-> None, U2_old |-> None]

\* copy_previous_state snapshotting every weight whatever its target
copy_previous_state_always(self) ==
    [self EXCEPT !.old =
        (IF self.wRank = None THEN [W_old |-> Some(self.p.W)]
         ELSE [W1_old |-> Some(self.p.W1), W2_old |-> Some(self.p.W2)])
        @@ (IF self.uRank = None THEN [U_old |-> Some(self.p.U)]
            ELSE [U1_old |-> Some(self.p.U1), U2_old |-> Some(self.p.U2)])
        @@ self.old]

copy_previous_state(self) ==
    LET w == IF self.wRank = None
             THEN IF RLess(self.wSparsity, R(1))
                  THEN [self.old EXCEPT !.W_old = Some(self.p.W)]
                  ELSE self.old
             ELSE IF RLess(self.wSparsity, R(1))
                  THEN [self.old EXCEPT !.W1_old = Some(self.p.W1),
                                        !.W2_old = Some(self.p.W2)]
                  ELSE self.old
        u == IF self.uRank = None
             THEN IF RLess(self.uSparsity, R(1))
                  THEN [w EXCEPT !.U_old = Some(self.p.U)]
                  ELSE w
             ELSE IF RLess(self.uSparsity, R(1))
                  THEN [w EXCEPT !.U1_old = Some(self.p.U1),
                                 !.U2_old = Some(self.p.U2)]
                  ELSE w
    IN [self EXCEPT !.old = u]

FastGRNNCell(input_size, hidden_size, gate_nonlinearity, update_nonlinearity, wRank, uRank, wSparsity, uSparsity, zetaInit, nuInit, seed) ==
    LET W == IF wRank = None
             THEN [W |-> Randn(seed, hidden_size, input_size)]
             ELSE [W1 |-> Randn(seed, wRank[1], input_size),
                   W2 |-> Randn(seed + 1, hidden_size, wRank[1])]
        U == IF uRank = None
             THEN [U |-> Randn(seed + 2, hidden_size, hidden_size)]
             ELSE [U1 |-> Randn(seed + 2, uRank[1], hidden_size),
                   U2 |-> Randn(seed + 3, hidden_size, uRank[1])]
        rest == [bias_gate |-> Ones2(1, hidden_size),
                 bias_update |-> Ones2(1, hidden_size),
                 zeta |-> Full(1, 1, zetaInit),
                 nu |-> Full(1, 1, nuInit)]
    IN copy_previous_state(
         [cellType |-> "FastGRNN", input_size |-> input_size,
          hidden_size |-> hidden_size,
          gate_nonlinearity |-> gate_nonlinearity,
          update_nonlinearity |-> update_nonlinearity,
          wRank |-> wRank, uRank |-> uRank,
          wSparsity |-> wSparsity, uSparsity |-> uSparsity,
          num_weight_matrices |-> << IF wRank = None THEN 1 ELSE 2,
                                     IF uRank = None THEN 1 ELSE 2 >>,
          p |-> W @@ U @@ rest, old |-> NoSnapshots])

FastRNNCell(input_size, hidden_size, update_nonlinearity, wRank, uRank, wSparsity, uSparsity, alphaInit, betaInit, seed) ==
    LET W == IF wRank = None
             THEN [W |-> Randn(seed, input_size, hidden_size)]
             ELSE [W1 |-> Randn(seed, input_size, wRank[1]),
                   W2 |-> Randn(seed + 1, wRank[1], hidden_size)]
        U == IF uRank = None
             THEN [U |-> Randn(seed + 2, hidden_size, hidden_size)]
             ELSE [U1 |-> Randn(seed + 2, hidden_size, uRank[1]),
                   U2 |-> Randn(seed + 3, uRank[1], hidden_size)]
        rest == [bias_update |-> Ones2(1, hidden_size),
                 alpha |-> Full(1, 1, alphaInit),
                 beta |-> Full(1, 1, betaInit)]
    IN [cellType |-> "FastRNN", input_size |-> input_size,
        hidden_size |-> hidden_size,
        update_nonlinearity |-> update_nonlinearity,
        wRank |-> wRank, uRank |-> uRank,
        wSparsity |-> wSparsity, uSparsity |-> uSparsity,
        num_weight_matrices |-> << IF wRank = None THEN 1 ELSE 2,
                                   IF uRank = None THEN 1 ELSE 2 >>,
        p |-> W @@ U @@ rest]

\* the gate matrices W1..Wn of a class, with the shared factor when a rank is given
GateWeights(seed, n, in_size, hidden_size, rank, shared) ==
    LET inner == IF rank = None THEN in_size ELSE rank[1]
        gates == [name \in {shared \o ToString(g) : g \in 1..n} |->
                     Randn(seed + (CHOOSE g \in 1..n : name = shared \o ToString(g)),
                           inner, hidden_size)]
    IN IF rank = None THEN gates
       ELSE (shared :> Randn(seed, in_size, rank[1])) @@ gates

LRCell(cellType, n, biases, input_size, hidden_size, gate_nonlinearity, update_nonlinearity, wRank, uRank, seed) ==
    [cellType |-> cellType, input_size |-> input_size,
     hidden_size |-> hidden_size,
     gate_nonlinearity |-> gate_nonlinearity,
     update_nonlinearity |-> update_nonlinearity,
     wRank |-> wRank, uRank |-> uRank,
     num_weight_matrices |-> << IF wRank = None THEN n ELSE n + 1,
                                IF uRank = None THEN n ELSE n + 1 >>,
     p |-> GateWeights(seed, n, input_size, hidden_size, wRank, "W")
           @@ GateWeights(seed + n + 1, n, hidden_size, hidden_size, uRank, "U")
           @@ [b \in biases |-> Ones2(1, hidden_size)]]

LSTMLRCell(input_size, hidden_size, gate_nonlinearity, update_nonlinearity, wRank, uRank, seed) ==
    LRCell("LSTMLR", 4, {"bias_f", "bias_i", "bias_c", "bias_o"},
           input_size, hidden_size, gate_nonlinearity, update_nonlinearity,
           wRank, uRank, seed)

GRULRCell(input_size, hidden_size, gate_nonlinearity, update_nonlinearity, wRank, uRank, seed) ==
    LRCell("GRULR", 3, {"bias_r", "bias_gate", "bias_update"},
           input_size, hidden_size, gate_nonlinearity, update_nonlinearity,
           wRank, uRank, seed)

UGRNNLRCell(input_size, hidden_size, gate_nonlinearity, update_nonlinearity, wRank, uRank, seed) ==
    LRCell("UGRNNLR", 2, {"bias_gate", "bias_update"},
           input_size, hidden_size, gate_nonlinearity, update_nonlinearity,
           wRank, uRank, seed)

\* ------------------------------------------------------------------------
\* Sparsification methods.  A method that mutates the cell yields
\* [self |-> the cell afterwards, raised |-> None or Some(error kind)].
\* ------------------------------------------------------------------------
Completed(self) == [self |-> self, raised |-> None]

Raised(self, kind) == [self |-> self, raised |-> Some(kind)]

\* self.<name>.data = utils.hardThreshold(self.<name>, s) for each name in turn
RECURSIVE ThresholdEach(_, _, _)
ThresholdEach(self, names, s) ==
    IF names = << >> THEN self
    ELSE LET n == Head(names)
         IN ThresholdEach([self EXCEPT !.p[n] = hardThreshold(self.p[n], s)],
                          Tail(names), s)

WNames(self) == IF self.wRank = None THEN << "W" >> ELSE << "W1", "W2" >>

UNames(self) == IF self.uRank = None THEN << "U" >> ELSE << "U1", "U2" >>

\* FastRNNCell.sparsify thresholding the U class at the target of the W class
FastRNNCell_sparsify_oneTarget(self) ==
    ThresholdEach(ThresholdEach(self, WNames(self), self.wSparsity),
                  UNames(self), self.wSparsity)

FastRNNCell_sparsify(self) ==
    ThresholdEach(ThresholdEach(self, WNames(self), self.wSparsity),
                  UNames(self), self.uSparsity)

\* FastGRNNCell.sparsify taking the snapshot before it thresholds
FastGRNNCell_sparsify_snapshotFirst(self) ==
    LET snap == copy_previous_state(self)
    IN ThresholdEach(ThresholdEach(snap, WNames(self), self.wSparsity),
                     UNames(self), self.uSparsity)

FastGRNNCell_sparsify(self) ==
    copy_previous_state(
        ThresholdEach(ThresholdEach(self, WNames(self), self.wSparsity),
                      UNames(self), self.uSparsity))

OldName(n) == n \o "_old"

\* self.<name>.data = utils.supportBasedThreshold(self.<name>, self.<name>_old)
\* for each name in turn; reading a snapshot that was never created raises
\* AttributeError and leaves the earlier assignments in place
RECURSIVE SupportEach(_, _)
SupportEach(self, names) ==
    IF names = << >> THEN Completed(self)
    ELSE LET n == Head(names)
             snapshot == self.old[OldName(n)]
         IN IF snapshot = None THEN Raised(self, "AttributeError")
            ELSE LET t == supportBasedThreshold(self.p[n], snapshot[1])
                 IN IF IsErr(t) THEN Raised(self, t.err)
                    ELSE SupportEach([self EXCEPT !.p[n] = t], Tail(names))

\* sparsifyWithSupport selecting by magnitude again instead of by the snapshot
sparsifyWithSupport_reselect(self) == Completed(FastRNNCell_sparsify(self))

\* sparsifyWithSupport adding the masked values to the weights, self.W.data +=
\* ..., instead of assigning them
sparsifyWithSupport_accumulate(self) ==
    LET r == SupportEach(self, WNames(self) \o UNames(self))
        names == {WNames(self)[q] : q \in 1..Len(WNames(self))}
                 \cup {UNames(self)[q] : q \in 1..Len(UNames(self))}
    IN [r EXCEPT !.self.p = [n \in DOMAIN self.p |->
                               IF n \in names THEN TAdd(self.p[n], r.self.p[n])
                               ELSE self.p[n]]]

\* sparsifyWithSupport taking a new snapshot once it has masked the weights
sparsifyWithSupport_refresh(self) ==
    LET r == SupportEach(self, WNames(self) \o UNames(self))
    IN [r EXCEPT !.self = copy_previous_state(r.self)]

sparsifyWithSupport(self) ==
    SupportEach(self, WNames(self) \o UNames(self))

\* ------------------------------------------------------------------------
\* Accessors.  getVars returns the list of the cell's parameter objects, here
\* the list of their names (self.p[name] is the tensor the entry refers to).
\* A method that returns a value yields
\* [value |-> None or Some(value), raised |-> None or Some(error kind)].
\* ------------------------------------------------------------------------
Returned(v) == [value |-> Some(v), raised |-> None]

Failed(kind) == [value |-> None, raised |-> Some(kind)]

FastGRNNCell_getVars(self) ==
    (IF self.num_weight_matrices[1] = 1 THEN << "W" >> ELSE << "W1", "W2" >>)
    \o (IF self.num_weight_matrices[2] = 1 THEN << "U" >> ELSE << "U1", "U2" >>)
    \o << "bias_gate", "bias_update" >>
    \o << "zeta", "nu" >>

FastRNNCell_getVars(self) ==
    (IF self.num_weight_matrices[1] = 1 THEN << "W" >> ELSE << "W1", "W2" >>)
    \o (IF self.num_weight_matrices[2] = 1 THEN << "U" >> ELSE << "U1", "U2" >>)
    \o << "bias_update" >>
    \o << "alpha", "beta" >>

\* LSTMLRCell.getVars listing the shared factor after the gate factors
LSTMLRCell_getVars_sharedLast(self) ==
    (IF self.num_weight_matrices[1] = 4 THEN << "W1", "W2", "W3", "W4" >>
     ELSE << "W1", "W2", "W3", "W4", "W" >>)
    \o (IF self.num_weight_matrices[2] = 4 THEN << "U1", "U2", "U3", "U4" >>
        ELSE << "U1", "U2", "U3", "U4", "U" >>)
    \o << "bias_f", "bias_i", "bias_c", "bias_o" >>

LSTMLRCell_getVars(self) ==
    (IF self.num_weight_matrices[1] = 4 THEN << "W1", "W2", "W3", "W4" >>
     ELSE << "W", "W1", "W2", "W3", "W4" >>)
    \o (IF self.num_weight_matrices[2] = 4 THEN << "U1", "U2", "U3", "U4" >>
        ELSE << "U", "U1", "U2", "U3", "U4" >>)
    \o << "bias_f", "bias_i", "bias_c", "bias_o" >>

GRULRCell_getVars(self) ==
    (IF self.num_weight_matrices[1] = 3 THEN << "W1", "W2", "W3" >>
     ELSE << "W", "W1", "W2", "W3" >>)
    \o (IF self.num_weight_matrices[2] = 3 THEN << "U1", "U2", "U3" >>
        ELSE << "U", "U1", "U2", "U3" >>)
    \o << "bias_r", "bias_gate", "bias_update" >>

UGRNNLRCell_getVars(self) ==
    (IF self.num_weight_matrices[1] = 2 THEN << "W1", "W2" >>
     ELSE << "W", "W1", "W2" >>)
    \o (IF self.num_weight_matrices[2] = 2 THEN << "U1", "U2" >>
        ELSE << "U", "U1", "U2" >>)
    \o << "bias_gate", "bias_update" >>

\* cell.getVars(), dispatched on the class of the cell
CellGetVars(self) ==
    CASE self.cellType = "FastGRNN" -> FastGRNNCell_getVars(self)
      [] self.cellType = "FastRNN" -> FastRNNCell_getVars(self)
      [] self.cellType = "LSTMLR" -> LSTMLRCell_getVars(self)
      [] self.cellType = "GRULR" -> GRULRCell_getVars(self)
      [] self.cellType = "UGRNNLR" -> UGRNNLRCell_getVars(self)

\* BaseRNN.getVars: return self._RNNCell.getVars()
BaseRNN_getVars(cell) == CellGetVars(cell)

\* Python truth value of a float passed as a flag
Truthy(s) == ~IsZero(s)

\* utils.countNNZ: the element count when the flag is false, the number of
\* non-zero entries otherwise
countNNZ(A, sparsityFlag) ==
    IF sparsityFlag
    THEN Cardinality({q \in 1..numel(A) : ~IsZero(Flat(A, q))})
    ELSE numel(A)

\* totalnnz += utils.countNNZ(self.<name>, flag) for each name in turn
RECURSIVE CountEach(_, _, _)
CountEach(self, names, flag) ==
    IF names = << >> THEN 0
    ELSE countNNZ(self.p[Head(names)], flag) + CountEach(self, Tail(names), flag)

\* FastGRNNCell.getModelSize: the loops over the W and U entries of getVars
\* run, then range(endU, mats.len()) is evaluated on a Python list, which has
\* no attribute len
FastGRNNCell_getModelSize(self) ==
    LET mats == FastGRNNCell_getVars(self)
        endW == self.num_weight_matrices[1]
        endU == endW + self.num_weight_matrices[2]
        totalnnz == 2 + CountEach(self, SubSeq(mats, 1, endW), Truthy(self.wSparsity))
                      + CountEach(self, SubSeq(mats, endW + 1, endU), Truthy(self.uSparsity))
    IN Failed("AttributeError")

FastRNNCell_getModelSize(self) ==
    Returned(2 + countNNZ(self.p.bias_update, FALSE)
               + CountEach(self, WNames(self), Truthy(self.wSparsity))
               + CountEach(self, UNames(self), Truthy(self.uSparsity)))

\* ------------------------------------------------------------------------
\* BaseRNN.forward, the unroller.  A call in progress is a frame:
\*   pc            "idle", "loop", "done" (returned) or "raised"
\*   input         the input argument; hiddenState, cellState the locals
\*   hiddenStates, cellStates  the output buffers (None while not allocated)
\*   i             the loop index; ret the returned value; error the exception
\* ------------------------------------------------------------------------
Idle ==
    [pc |-> "idle", input |-> None, hiddenState |-> None, cellState |-> None,
     hiddenStates |-> None, cellStates |-> None, i |-> 0, ret |-> None,
     error |-> None]

output_size(cell) == cell.hidden_size

\* InputAt with the time index stuck at 0 instead of the loop variable
InputAt_stuck(batch_first, input, i) ==
    IF batch_first
    THEN LET F(b, k) == input.v[b][1][k]
         IN Tensor2(input.shape[1], input.shape[3], F)
    ELSE LET F(b, k) == input.v[1][b][k]
         IN Tensor2(input.shape[2], input.shape[3], F)

\* input[:, i, :] when batch_first, input[i, :, :] otherwise (i from 0)
InputAt(batch_first, input, i) ==
    IF batch_first
    THEN LET F(b, k) == input.v[b][i + 1][k]
         IN Tensor2(input.shape[1], input.shape[3], F)
    ELSE LET F(b, k) == input.v[i + 1][b][k]
         IN Tensor2(input.shape[2], input.shape[3], F)

\* AssignAt writing buffer[:, i, :] in both layouts
AssignAt_batchFirstOnly(batch_first, buffer, i, value) ==
    LET Val(b, k) == value.v[BIdx(value.shape[1], b)][BIdx(value.shape[2], k)]
        F(x, y, k) == IF y = i + 1 THEN Val(x, k) ELSE buffer.v[x][y][k]
    IN IF ~((value.shape[1] = buffer.shape[1] \/ value.shape[1] = 1)
            /\ (value.shape[2] = buffer.shape[3] \/ value.shape[2] = 1))
       THEN ShapeMismatch
       ELSE Tensor3(buffer.shape[1], buffer.shape[2], buffer.shape[3], F)

\* buffer[:, i, :] = value when batch_first, buffer[i, :, :] = value otherwise;
\* the value is broadcast to the slot and must be broadcastable to it
AssignAt(batch_first, buffer, i, value) ==
    LET rows == IF batch_first THEN buffer.shape[1] ELSE buffer.shape[2]
        cols == buffer.shape[3]
        Val(b, k) == value.v[BIdx(value.shape[1], b)][BIdx(value.shape[2], k)]
        F(x, y, k) == IF batch_first
                      THEN IF y = i + 1 THEN Val(x, k) ELSE buffer.v[x][y][k]
                      ELSE IF x = i + 1 THEN Val(y, k) ELSE buffer.v[x][y][k]
    IN IF ~((value.shape[1] = rows \/ value.shape[1] = 1)
            /\ (value.shape[2] = cols \/ value.shape[2] = 1))
       THEN ShapeMismatch
       ELSE Tensor3(buffer.shape[1], buffer.shape[2], buffer.shape[3], F)

\* range(0, input.shape[1]) when batch_first, range(0, input.shape[0]) otherwise
TimeSteps(batch_first, input) ==
    IF batch_first THEN input.shape[2] ELSE input.shape[1]

\* BaseRNN_enter sizing the zero states by input.shape[0] in both layouts
BaseRNN_enter_shape0(cell, batch_first, input, hiddenState, cellState) ==
    LET buffer == Zeros3(input.shape[1], input.shape[2], output_size(cell))
    IN [pc |-> "loop", input |-> Some(input),
        hiddenState |-> IF hiddenState = None
                        THEN Some(Zeros2(input.shape[1], output_size(cell)))
                        ELSE hiddenState,
        cellState |-> IF cell.cellType = "LSTMLR" /\ cellState = None
                      THEN Some(Zeros2(input.shape[1], output_size(cell)))
                      ELSE cellState,
        hiddenStates |-> Some(buffer),
        cellStates |-> IF cell.cellType = "LSTMLR" THEN Some(buffer) ELSE None,
        i |-> 0, ret |-> None, error |-> None]

\* the buffers and the initial states, allocated before the loop
BaseRNN_enter(cell, batch_first, input, hiddenState, cellState) ==
    LET batch == IF batch_first THEN input.shape[1] ELSE input.shape[2]
        buffer == Zeros3(input.shape[1], input.shape[2], output_size(cell))
    IN [pc |-> "loop", input |-> Some(input),
        hiddenState |-> IF hiddenState = None
                        THEN Some(Zeros2(batch, output_size(cell)))
                        ELSE hiddenState,
        cellState |-> IF cell.cellType = "LSTMLR" /\ cellState = None
                      THEN Some(Zeros2(batch, output_size(cell)))
                      ELSE cellState,
        hiddenStates |-> Some(buffer),
        cellStates |-> IF cell.cellType = "LSTMLR" THEN Some(buffer) ELSE None,
        i |-> 0, ret |-> None, error |-> None]

Raise(frame, e) == [frame EXCEPT !.pc = "raised", !.error = Some(e.err)]

\* BaseRNN_store filling the buffers without updating hiddenState and
\* cellState, so that every step starts from the initial state
BaseRNN_store_keepsInitial(cell, batch_first, frame, out) ==
    IF IsErr(out) THEN Raise(frame, out)
    ELSE IF cell.cellType = "LSTMLR"
    THEN LET hs == AssignAt(batch_first, frame.hiddenStates[1], frame.i, out.first)
             cs == AssignAt(batch_first, frame.cellStates[1], frame.i, out.second)
         IN IF IsErr(hs) THEN Raise(frame, hs)
            ELSE IF IsErr(cs) THEN Raise(frame, cs)
            ELSE [frame EXCEPT !.hiddenStates = Some(hs),
                               !.cellStates = Some(cs),
                               !.i = frame.i + 1]
    ELSE LET hs == AssignAt(batch_first, frame.hiddenStates[1], frame.i, out)
         IN IF IsErr(hs) THEN Raise(frame, hs)
            ELSE [frame EXCEPT !.hiddenStates = Some(hs),
                               !.i = frame.i + 1]

\* the assignments of the loop body once the cell has returned out:
\* hiddenState (and cellState) = out, then the slot i of the buffer(s)
BaseRNN_store(cell, batch_first, frame, out) ==
    IF IsErr(out) THEN Raise(frame, out)
    ELSE IF cell.cellType = "LSTMLR"
    THEN LET hs == AssignAt(batch_first, frame.hiddenStates[1], frame.i, out.first)
             cs == AssignAt(batch_first, frame.cellStates[1], frame.i, out.second)
         IN IF IsErr(hs) THEN Raise(frame, hs)
            ELSE IF IsErr(cs) THEN Raise(frame, cs)
            ELSE [frame EXCEPT !.hiddenState = Some(out.first),
                               !.cellState = Some(out.second),
                               !.hiddenStates = Some(hs),
                               !.cellStates = Some(cs),
                               !.i = frame.i + 1]
    ELSE LET hs == AssignAt(batch_first, frame.hiddenStates[1], frame.i, out)
         IN IF IsErr(hs) THEN Raise(frame, hs)
            ELSE [frame EXCEPT !.hiddenState = Some(out),
                               !.hiddenStates = Some(hs),
                               !.i = frame.i + 1]

\* one pass through the loop body
BaseRNN_body(cell, batch_first, frame) ==
    BaseRNN_store(cell, batch_first, frame,
        CellCall(cell, InputAt(batch_first, frame.input[1], frame.i),
                 IF cell.cellType = "LSTMLR"
                 THEN Pair(frame.hiddenState[1], frame.cellState[1])
                 ELSE frame.hiddenState[1]))

\* BaseRNN_return returning the hidden buffer alone for every cell
BaseRNN_return_hiddenOnly(cell, frame) ==
    [frame EXCEPT !.pc = "done", !.ret = Some(frame.hiddenStates[1])]

\* the return statement after the loop
BaseRNN_return(cell, frame) ==
    [frame EXCEPT !.pc = "done",
                  !.ret = IF cell.cellType = "LSTMLR"
                          THEN Some(Pair(frame.hiddenStates[1], frame.cellStates[1]))
                          ELSE Some(frame.hiddenStates[1])]

\* the call from entry to its return or its exception
RECURSIVE RunLoop(_, _, _)
RunLoop(cell, batch_first, frame) ==
    IF frame.pc # "loop" THEN frame
    ELSE IF frame.i < TimeSteps(batch_first, frame.input[1])
    THEN RunLoop(cell, batch_first, BaseRNN_body(cell, batch_first, frame))
    ELSE BaseRNN_return(cell, frame)

BaseRNN_forward(cell, batch_first, input, hiddenState, cellState) ==
    RunLoop(cell, batch_first,
            BaseRNN_enter(cell, batch_first, input, hiddenState, cellState))

\* ------------------------------------------------------------------------
\* The program as a state machine
\* ------------------------------------------------------------------------
VARIABLES
    cell,         \* the cell object (BaseRNN._RNNCell)
    batch_first,  \* BaseRNN._batch_first
    frame,        \* the BaseRNN.forward call in progress
    call,         \* the arguments of that call, as the caller passed them
    pruned,       \* the weights as the last sparsify() left them, or None
    last,         \* the last method that ran on the cell
    raised,       \* the exception that method ended with, or None
    result        \* the value the last accessor or function call returned, or None

vars == << cell, batch_first, frame, call, pruned, last, raised, result >>

\* bounds of the model
MaxBatch == 2

MaxTime == 2

MaxSeed == 1

MaxRank == 1

InputSize == 2

HiddenSize == 2

\* arguments of the constructors: zetaInit, alphaInit and betaInit are the
\* defaults; nuInit is passed as -3, whose sigmoid here is 1/8
zetaInit == 1

nuInit == -3

alphaInit == -3

betaInit == 3

Ranks == {None} \cup {Some(r) : r \in 1..MaxRank}

Nonlinearities == {<< "quantSigm", "quantTanh" >>, << "quantTanh", "lambda_negate" >>}

CellTypes == {"FastGRNN", "FastRNN", "LSTMLR", "GRULR", "UGRNNLR"}

\* the cells the unroller is run on: every variant, full-rank and low-rank
Construct(type, nl, wRank, uRank) ==
    CASE type = "FastGRNN" ->
            FastGRNNCell(InputSize, HiddenSize, nl[1], nl[2], wRank, uRank,
                         R(1), R(1), zetaInit, nuInit, 0)
      [] type = "FastRNN" ->
            FastRNNCell(InputSize, HiddenSize, nl[2], wRank, uRank,
                        R(1), R(1), alphaInit, betaInit, 0)
      [] type = "LSTMLR" ->
            LSTMLRCell(InputSize, HiddenSize, nl[1], nl[2], wRank, uRank, 0)
      [] type = "GRULR" ->
            GRULRCell(InputSize, HiddenSize, nl[1], nl[2], wRank, uRank, 0)
      [] type = "UGRNNLR" ->
            UGRNNLRCell(InputSize, HiddenSize, nl[1], nl[2], wRank, uRank, 0)

Cells ==
    {Construct(type, nl, wRank, uRank) :
        type \in CellTypes, nl \in Nonlinearities, wRank \in Ranks, uRank \in Ranks}

\* the sequence data of a call: batch element b, time t (from 0), feature k
DataVals == << R(1), R(0), R(-1), R(3), R(2) >>

Data(seed, b, t, k) == DataVals[((seed + 2 * b + 3 * t + k) % Len(DataVals)) + 1]

\* the data laid out as the input tensor of the given layout
MakeInput(layout_batch_first, B, T, K, seed) ==
    IF layout_batch_first
    THEN LET F(b, t, k) == Data(seed, b, t - 1, k) IN Tensor3(B, T, K, F)
    ELSE LET F(t, b, k) == Data(seed, b, t - 1, k) IN Tensor3(T, B, K, F)

\* an initial state the caller supplies
MakeState(seed, r, c) ==
    LET F(i, j) == DataVals[((seed + i + 2 * j) % Len(DataVals)) + 1]
    IN Tensor2(r, c, F)

\* the shapes of a supplied state: the right one, and three wrong ones
StateShapes(B) ==
    {<< B, HiddenSize >>, << 1, HiddenSize >>, << B + 1, HiddenSize >>,
     << B, HiddenSize + 1 >>}

\* the last dimension and the initial states of a call: a matching input with
\* no state, one state or both, of the right or of a wrong shape, and an
\* input whose last dimension is not the cell's input_size
CallArgs(B, seed) ==
    LET Args(K, h, c) == [K |-> K, hiddenState |-> h, cellState |-> c]
        good == Some(MakeState(seed, B, HiddenSize))
    IN {Args(InputSize, None, None), Args(InputSize + 1, None, None),
        Args(InputSize, None, good)}
       \cup {Args(InputSize, Some(MakeState(seed, sh[1], sh[2])), None) :
                sh \in StateShapes(B)}
       \cup {Args(InputSize, good, Some(MakeState(seed + 1, sh[1], sh[2]))) :
                sh \in {<< B, HiddenSize >>, << 1, HiddenSize >>}}

Init ==
    /\ cell \in Cells
    /\ batch_first \in BOOLEAN
    /\ frame = Idle
    /\ call = None
    /\ pruned = None
    /\ last = "__init__"
    /\ raised = None
    /\ result = None

\* a caller invokes BaseRNN.forward(input, hiddenState, cellState)
Forward ==
    /\ frame.pc = "idle"
    /\ \E B \in 1..MaxBatch, T \in 0..MaxTime, seed \in {1} :
         \E args \in CallArgs(B, seed) :
            LET input == MakeInput(batch_first, B, T, args.K, seed)
            IN /\ frame' = BaseRNN_enter(cell, batch_first, input,
                                         args.hiddenState, args.cellState)
               /\ call' = Some([B |-> B, T |-> T, K |-> args.K, seed |-> seed,
                                input |-> input, hiddenState |-> args.hiddenState,
                                cellState |-> args.cellState])
    /\ UNCHANGED << cell, batch_first, pruned, last, raised, result >>

\* one iteration of the loop over time
Iterate ==
    /\ frame.pc = "loop"
    /\ frame.i < TimeSteps(batch_first, frame.input[1])
    /\ frame' = BaseRNN_body(cell, batch_first, frame)
    /\ UNCHANGED << cell, batch_first, call, pruned, last, raised, result >>

\* the loop is exhausted: return the buffer(s)
Return ==
    /\ frame.pc = "loop"
    /\ frame.i >= TimeSteps(batch_first, frame.input[1])
    /\ frame' = BaseRNN_return(cell, frame)
    /\ UNCHANGED << cell, batch_first, call, pruned, last, raised, result >>

\* Finish leaving the last hidden and cell state in the unroller
Finish_keepsState ==
    /\ frame.pc \in {"done", "raised"}
    /\ frame' = [Idle EXCEPT !.hiddenState = frame.hiddenState,
                             !.cellState = frame.cellState]
    /\ call' = None
    /\ UNCHANGED << cell, batch_first, pruned, last, raised, result >>

\* the caller has the result or the exception; the frame is gone
Finish ==
    /\ frame.pc \in {"done", "raised"}
    /\ frame' = Idle
    /\ call' = None
    /\ UNCHANGED << cell, batch_first, pruned, last, raised, result >>

Next == Forward \/ Iterate \/ Return \/ Finish

Spec == Init /\ [][Next]_vars

\* ------------------------------------------------------------------------
\* The pruning life cycle of the sparsifiable cells: an external driver
\* alternates training updates, sparsify(), sparsifyWithSupport() and forward
\* calls on one FastGRNN or FastRNN cell.
\* ------------------------------------------------------------------------
MaxSparsityDen == 2

\* the sparsity targets: the fractions n/d in (0, 1] with d up to the bound
Sparsities ==
    {t \in {Norm(n, d) : n \in 1..MaxSparsityDen, d \in 1..MaxSparsityDen} :
        ~RLess(R(1), t)}

SparseCells ==
    {FastGRNNCell(InputSize, HiddenSize, "quantSigm", "quantTanh", wRank, uRank,
                  wSparsity, uSparsity, zetaInit, nuInit, 0) :
        wRank \in Ranks, uRank \in Ranks,
        wSparsity \in Sparsities, uSparsity \in Sparsities}
    \cup
    {FastRNNCell(InputSize, HiddenSize, "quantTanh", wRank, uRank,
                 wSparsity, uSparsity, alphaInit, betaInit, 0) :
        wRank \in Ranks, uRank \in Ranks,
        wSparsity \in Sparsities, uSparsity \in Sparsities}

InitSparse ==
    /\ cell \in SparseCells
    /\ batch_first = FALSE
    /\ frame = Idle
    /\ call = None
    /\ pruned = None
    /\ last = "__init__"
    /\ raised = None
    /\ result = None

Range(seq) == {seq[q] : q \in 1..Len(seq)}

\* the names of the weight-class parameters of a cell, and their tensors
WeightNames(self) == Range(WNames(self) \o UNames(self))

Weights(self) == [n \in WeightNames(self) |-> self.p[n]]

\* the values a training update leaves in the weights (a sample with exact
\* zeros and with entries of equal magnitude)
TrainVals == << R(-2), R(1), R(3), R(0), R(0), R(0), R(2) >>

Trained(seed, A) ==
    LET F(i, j) == TrainVals[((seed + 2 * i + j) % Len(TrainVals)) + 1]
    IN Tensor2(A.shape[1], A.shape[2], F)

\* the driver calls cell.sparsify()
Sparsify ==
    /\ frame.pc = "idle"
    /\ cell' = IF cell.cellType = "FastGRNN" THEN FastGRNNCell_sparsify(cell)
               ELSE FastRNNCell_sparsify(cell)
    /\ pruned' = Some(Weights(cell'))
    /\ last' = "sparsify"
    /\ raised' = None
    /\ result' = None
    /\ UNCHANGED << batch_first, frame, call >>

\* the driver calls cell.sparsifyWithSupport(), which only FastGRNNCell has
SparsifyWithSupport ==
    /\ frame.pc = "idle"
    /\ cell.cellType = "FastGRNN"
    /\ LET r == sparsifyWithSupport(cell)
       IN /\ cell' = r.self
          /\ raised' = r.raised
    /\ last' = "sparsifyWithSupport"
    /\ result' = None
    /\ UNCHANGED << batch_first, frame, call, pruned >>

\* an optimizer step writes new values into every weight-class parameter
Train ==
    /\ frame.pc = "idle"
    /\ \E seed \in 0..MaxSeed :
         cell' = [cell EXCEPT !.p = [n \in WeightNames(cell) |-> Trained(seed, cell.p[n])]
                                     @@ cell.p]
    /\ last' = "train"
    /\ raised' = None
    /\ result' = None
    /\ UNCHANGED << batch_first, frame, call, pruned >>

\* the driver runs the unroller on a sequence, from entry to return
ForwardPruned ==
    /\ frame.pc = "idle"
    /\ LET input == MakeInput(batch_first, 1, 1, InputSize, 1)
       IN /\ frame' = BaseRNN_forward(cell, batch_first, input, None, None)
          /\ call' = Some([B |-> 1, T |-> 1, K |-> InputSize, seed |-> 1,
                           input |-> input, hiddenState |-> None, cellState |-> None])
    /\ last' = "forward"
    /\ raised' = None
    /\ result' = None
    /\ UNCHANGED << cell, batch_first, pruned >>

\* the driver calls cell.getVars()
GetVars ==
    /\ frame.pc = "idle"
    /\ result' = Some(CellGetVars(cell))
    /\ last' = "getVars"
    /\ raised' = None
    /\ UNCHANGED << cell, batch_first, frame, call, pruned >>

\* the driver calls cell.getModelSize()
GetModelSize ==
    /\ frame.pc = "idle"
    /\ LET r == IF cell.cellType = "FastGRNN" THEN FastGRNNCell_getModelSize(cell)
                ELSE FastRNNCell_getModelSize(cell)
       IN /\ result' = r.value
          /\ raised' = r.raised
    /\ last' = "getModelSize"
    /\ UNCHANGED << cell, batch_first, frame, call, pruned >>

NextSparse ==
    \/ Sparsify
    \/ SparsifyWithSupport
    \/ Train
    \/ ForwardPruned
    \/ GetVars
    \/ GetModelSize
    \/ Finish

SpecSparse == InitSparse /\ [][NextSparse]_vars

\* ------------------------------------------------------------------------
\* The parameter lists: a caller asks a cell of any variant, or the unroller
\* that wraps it, for its parameters, any number of times.
\* ------------------------------------------------------------------------
\* the caller calls getVars() of the unroller
UnrollerGetVars ==
    /\ frame.pc = "idle"
    /\ result' = Some(BaseRNN_getVars(cell))
    /\ last' = "BaseRNN.getVars"
    /\ raised' = None
    /\ UNCHANGED << cell, batch_first, frame, call, pruned >>

NextVars == GetVars \/ UnrollerGetVars

SpecVars == Init /\ [][NextVars]_vars

\* ------------------------------------------------------------------------
\* gen_nonlinearity as a function of its two arguments: a caller holds a
\* tensor A and a selector and calls gen_nonlinearity(A, selector) once.
\* ------------------------------------------------------------------------
MaxElems == 2

\* element values on both sides of every clipping bound
NonlinVals == {R(-3), R(-1), R(0), Norm(1, 2), R(3)}

\* the shapes [r, c] of at most MaxElems elements
NonlinShapes ==
    {sh \in (1..MaxElems) \X (1..MaxElems) : sh[1] * sh[2] <= MaxElems}

NonlinTensors ==
    UNION {{[shape |-> sh, v |-> m] : m \in [1..sh[1] -> [1..sh[2] -> NonlinVals]]} :
              sh \in NonlinShapes}

\* the names gen_nonlinearity recognizes
NonlinNames == {"tanh", "sigmoid", "relu", "quantTanh", "quantSigm", "quantSigm4"}

\* the selectors passed: the names, callables, and strings that are neither
Selectors == NonlinNames \cup Callables \cup {"softmax", "Tanh", ""}

InitNonlin ==
    /\ cell = None
    /\ batch_first = FALSE
    /\ frame = Idle
    /\ call \in {Some([A |-> t, nonlinearity |-> nl]) : t \in NonlinTensors, nl \in Selectors}
    /\ pruned = None
    /\ last = "__init__"
    /\ raised = None
    /\ result = None

\* the caller calls gen_nonlinearity(A, nonlinearity)
ApplyNonlinearity ==
    /\ last = "__init__"
    /\ LET r == gen_nonlinearity(call[1].A, call[1].nonlinearity)
       IN /\ result' = IF IsErr(r) THEN None ELSE Some(r)
          /\ raised' = IF IsErr(r) THEN Some(r.err) ELSE None
    /\ call' = Some([A |-> ArgAfter(call[1].A, call[1].nonlinearity),
                     nonlinearity |-> call[1].nonlinearity])
    /\ last' = "gen_nonlinearity"
    /\ UNCHANGED << cell, batch_first, frame, pruned >>

NextNonlin == ApplyNonlinearity

SpecNonlin == InitNonlin /\ [][NextNonlin]_vars

\* ------------------------------------------------------------------------
\* The sequence modules LSTM, GRU, UGRNN, FastRNN and FastGRNN: each
\* constructs its cell by keyword and wraps it in a BaseRNN.
\* ------------------------------------------------------------------------
Wrappers == {"LSTM", "GRU", "UGRNN", "FastRNN", "FastGRNN"}

\* the cell class a sequence module instantiates
CellClassOf(wrapper) ==
    CASE wrapper = "LSTM" -> "LSTMLR"
      [] wrapper = "GRU" -> "GRULR"
      [] wrapper = "UGRNN" -> "UGRNNLR"
      [] wrapper = "FastRNN" -> "FastRNN"
      [] wrapper = "FastGRNN" -> "FastGRNN"

\* the keywords the __init__ of a cell class accepts after input_size and
\* hidden_size
InitKeywords(cellType) ==
    CASE cellType = "FastGRNN" ->
            {"gate_nonlinearity", "update_nonlinearity", "wRank", "uRank",
             "wSparsity", "uSparsity", "zetaInit", "nuInit", "name"}
      [] cellType = "FastRNN" ->
            {"update_nonlinearity", "wRank", "uRank",
             "wSparsity", "uSparsity", "alphaInit", "betaInit", "name"}
      [] cellType \in {"LSTMLR", "GRULR", "UGRNNLR"} ->
            {"gate_nonlinearity", "update_nonlinearity", "wRank", "uRank", "name"}

\* the keywords the __init__ of a sequence module passes to its cell class
ForwardedKeywords(wrapper) ==
    CASE wrapper = "FastGRNN" ->
            {"gate_nonlinearity", "update_nonlinearity", "wRank", "uRank",
             "wSparsity", "uSparsity", "zetaInit", "nuInit"}
      [] wrapper = "FastRNN" ->
            {"gate_nonlinearity", "update_nonlinearity", "wRank", "uRank",
             "alphaInit", "betaInit"}
      [] wrapper \in {"LSTM", "GRU", "UGRNN"} ->
            {"gate_nonlinearity", "update_nonlinearity", "wRank", "uRank"}

\* <wrapper>.__init__(input_size, hidden_size, ...): a keyword the cell class
\* does not accept makes the call of the cell class raise TypeError; otherwise
\* the module holds the cell and a BaseRNN with the layout flag
WrapperInit(wrapper, a) ==
    IF ~(ForwardedKeywords(wrapper) \subseteq InitKeywords(CellClassOf(wrapper)))
    THEN Failed("TypeError")
    ELSE Returned([cell |-> Construct(CellClassOf(wrapper),
                                      << a.gate_nonlinearity, a.update_nonlinearity >>,
                                      a.wRank, a.uRank),
                   batch_first |-> a.batch_first])

\* the arguments a caller constructs a sequence module with
WrapperArgs ==
    {[wrapper |-> w, gate_nonlinearity |-> nl[1], update_nonlinearity |-> nl[2],
      wRank |-> wRank, uRank |-> uRank, batch_first |-> b] :
        w \in Wrappers, nl \in Nonlinearities, wRank \in Ranks, uRank \in Ranks,
        b \in BOOLEAN}

InitWrap ==
    /\ cell = None
    /\ batch_first = TRUE
    /\ frame = Idle
    /\ call \in {Some(a) : a \in WrapperArgs}
    /\ pruned = None
    /\ last = "start"
    /\ raised = None
    /\ result = None

\* the caller constructs the sequence module
ConstructWrapper ==
    /\ last = "start"
    /\ LET r == WrapperInit(call[1].wrapper, call[1])
       IN /\ raised' = r.raised
          /\ cell' = IF r.raised = None THEN r.value[1].cell ELSE cell
          /\ batch_first' = IF r.raised = None THEN r.value[1].batch_first
                            ELSE batch_first
    /\ last' = "__init__"
    /\ UNCHANGED << frame, call, pruned, result >>

NextWrap == ConstructWrapper

SpecWrap == InitWrap /\ [][NextWrap]_vars

\* ------------------------------------------------------------------------
\* Properties of the unroller
\* ------------------------------------------------------------------------
\* the sequence data of the call at time t, one row per batch element
X(t) ==
    LET F(b, k) == Data(call[1].seed, b, t, k)
    IN Tensor2(call[1].B, call[1].K, F)

IsDual == cell.cellType = "LSTMLR"

ZeroState ==
    IF IsDual
    THEN Pair(Zeros2(call[1].B, cell.hidden_size), Zeros2(call[1].B, cell.hidden_size))
    ELSE Zeros2(call[1].B, cell.hidden_size)

\* the state before step 0: what the caller supplied, zeros where it did not
InitialState ==
    LET h == IF call[1].hiddenState = None
             THEN Zeros2(call[1].B, cell.hidden_size) ELSE call[1].hiddenState[1]
        c == IF call[1].cellState = None
             THEN Zeros2(call[1].B, cell.hidden_size) ELSE call[1].cellState[1]
    IN IF IsDual THEN Pair(h, c) ELSE h

\* the states of the recurrence: entry t + 1 is the state after t steps, each
\* the cell applied to the input of the step and the state before it
RECURSIVE Trajectory(_)
Trajectory(n) ==
    IF n = 0 THEN << InitialState >>
    ELSE LET before == Trajectory(n - 1)
         IN Append(before,
                   IF IsErr(before[n]) THEN before[n]
                   ELSE CellCall(cell, X(n - 1), before[n]))

HiddenOf(state) == IF IsDual /\ ~IsErr(state) THEN state.first ELSE state

\* the hidden states of a sequence of states
Hiddens(states) == [t \in 1..Len(states) |-> HiddenOf(states[t])]

\* the entry of an output buffer at time t, one row per batch element
Entry(buffer, t) ==
    LET F(b, k) == IF batch_first THEN buffer.v[b][t + 1][k] ELSE buffer.v[t + 1][b][k]
    IN Tensor2(call[1].B, cell.hidden_size, F)

TimeEntries(buffer) == IF batch_first THEN buffer.shape[2] ELSE buffer.shape[1]

BatchEntries(buffer) == IF batch_first THEN buffer.shape[1] ELSE buffer.shape[2]

InCall == frame.pc \in {"loop", "done"}

\* C1: while the call runs and when it has returned, the hidden buffer has
\* exactly T time entries; the entries at times below the loop index hold the
\* cell applied to the input at that time and the state of the step before
\* (the initial state before step 0), the entries from the loop index on are
\* still untouched, and the call returns only when the index has reached T.
TimeOrder ==
    InCall =>
        LET buffer == frame.hiddenStates[1]
            states == Trajectory(frame.i)
        IN /\ TimeEntries(buffer) = call[1].T
           /\ BatchEntries(buffer) = call[1].B
           /\ frame.i <= call[1].T
           /\ frame.pc = "done" => frame.i = call[1].T
           /\ [t \in 1..frame.i |-> Entry(buffer, t - 1)] = Hiddens(Tail(states))
           /\ \A t \in frame.i..(call[1].T - 1) :
                Entry(buffer, t) = Zeros2(call[1].B, cell.hidden_size)

TimeOrderWitness ==
    /\ frame.pc = "done"
    /\ call[1].T >= 2
    /\ Entry(frame.hiddenStates[1], 0) # Entry(frame.hiddenStates[1], 1)
    /\ Entry(frame.hiddenStates[1], 1) # Zeros2(call[1].B, cell.hidden_size)

NoStateGiven ==
    /\ call[1].hiddenState = None
    /\ IsDual => call[1].cellState = None

\* C2: a call without initial state(s) starts, in either layout, from zero
\* states of shape [batch, hidden_size], and its step-0 output is the cell
\* applied to the input at time 0 and the zero state.
ZeroStateSynthesis ==
    (InCall /\ NoStateGiven) =>
        /\ frame.i = 0 =>
              /\ frame.hiddenState = Some(Zeros2(call[1].B, cell.hidden_size))
              /\ IsDual => frame.cellState = Some(Zeros2(call[1].B, cell.hidden_size))
        /\ frame.i >= 1 =>
              Entry(frame.hiddenStates[1], 0) = HiddenOf(CellCall(cell, X(0), ZeroState))

ZeroStateWitness ==
    /\ InCall /\ NoStateGiven
    /\ ~batch_first
    /\ call[1].B # call[1].T
    /\ frame.i >= 1
    /\ Entry(frame.hiddenStates[1], 0) # Zeros2(call[1].B, cell.hidden_size)

\* a 3-D tensor with its first two axes exchanged
Transpose01(A) ==
    LET F(a, b, k) == A.v[b][a][k]
    IN Tensor3(A.shape[2], A.shape[1], A.shape[3], F)

IsPair(x) == "first" \in DOMAIN x

TransposeResult(ret) ==
    IF IsPair(ret) THEN Pair(Transpose01(ret.first), Transpose01(ret.second))
    ELSE Transpose01(ret)

\* C3: a call that returns, returns the same values as the unroller of the
\* other layout on the transposed input: the two results are transposes of
\* each other (both buffers for a dual-state cell).
LayoutEquivalence ==
    frame.pc = "done" =>
        LET other == BaseRNN_forward(cell, ~batch_first, Transpose01(call[1].input),
                                     call[1].hiddenState, call[1].cellState)
        IN /\ other.pc = "done"
           /\ TransposeResult(other.ret[1]) = frame.ret[1]

LayoutWitness ==
    /\ frame.pc = "done"
    /\ call[1].T >= 2 /\ call[1].B >= 2
    /\ IsDual
    /\ Entry(frame.ret[1].second, 0) # Entry(frame.ret[1].second, 1)

\* C4: the unroller returns a pair of identically shaped buffers exactly for
\* the dual-state cell, the first holding the first and the second the second
\* element of what the cell returned at each step; for a single-state cell it
\* returns one buffer, the same one as without an initial cell state.
DualStateReturn ==
    frame.pc = "done" =>
        IF IsDual
        THEN LET states == Trajectory(call[1].T)
             IN /\ IsPair(frame.ret[1])
                /\ frame.ret[1].first.shape = frame.ret[1].second.shape
                /\ \A t \in 0..(call[1].T - 1) :
                      /\ Entry(frame.ret[1].first, t) = states[t + 2].first
                      /\ Entry(frame.ret[1].second, t) = states[t + 2].second
        ELSE /\ ~IsPair(frame.ret[1])
             /\ frame.ret = BaseRNN_forward(cell, batch_first, call[1].input,
                                            call[1].hiddenState, None).ret

DualStateWitness ==
    /\ frame.pc = "done"
    /\ IsDual
    /\ call[1].T >= 2
    /\ frame.ret[1].first # frame.ret[1].second
    /\ Entry(frame.ret[1].second, 1) # Zeros2(call[1].B, cell.hidden_size)

\* ------------------------------------------------------------------------
\* Low-rank and full-rank cells
\* ------------------------------------------------------------------------
\* the full-rank cell of the same variant whose weight matrices are the
\* products of the factors of a low-rank cell, all other parameters equal
FullRankOf(c) ==
    LET others == [n \in DOMAIN c.p \ {"W", "W1", "W2", "W3", "W4",
                                      "U", "U1", "U2", "U3", "U4"} |-> c.p[n]]
        gatesW == {n \in {"W1", "W2", "W3", "W4"} : n \in DOMAIN c.p}
        gatesU == {n \in {"U1", "U2", "U3", "U4"} : n \in DOMAIN c.p}
        W == CASE c.wRank = None -> [n \in DOMAIN c.p \cap {"W", "W1", "W2", "W3", "W4"} |-> c.p[n]]
               [] c.wRank # None /\ c.cellType = "FastGRNN" -> [W |-> Matmul(c.p.W2, c.p.W1)]
               [] c.wRank # None /\ c.cellType = "FastRNN" -> [W |-> Matmul(c.p.W1, c.p.W2)]
               [] OTHER -> [n \in gatesW |-> Matmul(c.p.W, c.p[n])]
        U == CASE c.uRank = None -> [n \in DOMAIN c.p \cap {"U", "U1", "U2", "U3", "U4"} |-> c.p[n]]
               [] c.uRank # None /\ c.cellType = "FastGRNN" -> [U |-> Matmul(c.p.U2, c.p.U1)]
               [] c.uRank # None /\ c.cellType = "FastRNN" -> [U |-> Matmul(c.p.U1, c.p.U2)]
               [] OTHER -> [n \in gatesU |-> Matmul(c.p.U, c.p[n])]
    IN [c EXCEPT !.wRank = None, !.uRank = None, !.p = W @@ U @@ others]

IsLowRank(c) == c.wRank # None \/ c.uRank # None

AtStep == frame.pc = "loop" /\ frame.i < call[1].T

\* the arguments of the cell call the loop is about to make
StepInput == InputAt(batch_first, frame.input[1], frame.i)

StepState ==
    IF IsDual THEN Pair(frame.hiddenState[1], frame.cellState[1])
    ELSE frame.hiddenState[1]

\* C5: on every input and state the unroller hands to a low-rank cell, the
\* cell's forward equals (in exact arithmetic) the forward of the full-rank
\* cell built from the products of its factors.
LowRankEquivalence ==
    (AtStep /\ IsLowRank(cell)) =>
        CellCall(cell, StepInput, StepState)
            = CellCall(FullRankOf(cell), StepInput, StepState)

LowRankWitness ==
    /\ AtStep /\ frame.i >= 1
    /\ cell.wRank # None /\ cell.uRank # None
    /\ cell.cellType = "GRULR"
    /\ ~IsErr(CellCall(cell, StepInput, StepState))
    /\ CellCall(cell, StepInput, StepState) # StepState

\* ------------------------------------------------------------------------
\* Shape errors
\* ------------------------------------------------------------------------
\* C6 as claimed: a call whose input's last dimension differs from the cell's
\* input_size never returns an output sequence, whatever the batch size and
\* the number of time steps (zero included).
InputSizeMismatchFails ==
    (call # None /\ call[1].K # cell.input_size) => frame.pc # "done"

WrongShape(arg) ==
    arg # None /\ arg[1].shape # << call[1].B, cell.hidden_size >>

\* C7 as claimed, for the calls with at least one time step: a call with a
\* supplied initial hidden state (or, for the dual-state cell, initial cell
\* state) whose shape is not [batch, hidden_size] never returns an output
\* sequence.
StateShapeMismatchFails ==
    (/\ call # None
     /\ call[1].T >= 1
     /\ WrongShape(call[1].hiddenState) \/ (IsDual /\ WrongShape(call[1].cellState)))
        => frame.pc # "done"

\* ------------------------------------------------------------------------
\* Pruning claims, over the steps of SpecSparse
\* ------------------------------------------------------------------------
\* the configured target of the weight class a parameter belongs to
TargetOf(self, n) ==
    IF n \in Range(WNames(self)) THEN self.wSparsity ELSE self.uSparsity

Positions(A) == 1..numel(A)

Support(A) == {q \in Positions(A) : ~IsZero(Flat(A, q))}

SparsifyStep == last' = "sparsify"

SupportStep == last' = "sparsifyWithSupport"

\* C8: a step of FastGRNNCell.sparsify() leaves in every weight-class
\* parameter the hard-thresholded value, at the target of its class, of what
\* the parameter held before the step; for every class with a target below 1
\* the snapshot is the value after thresholding; nothing else of the cell
\* changes.
SparsifySnapshotsThresholded ==
    [][(SparsifyStep /\ cell.cellType = "FastGRNN") =>
          /\ \A n \in WeightNames(cell) :
                /\ cell'.p[n] = hardThreshold(cell.p[n], TargetOf(cell, n))
                /\ RLess(TargetOf(cell, n), R(1)) =>
                      cell'.old[OldName(n)] = Some(cell'.p[n])
                /\ ~RLess(TargetOf(cell, n), R(1)) =>
                      cell'.old[OldName(n)] = cell.old[OldName(n)]
          /\ \A n \in (DOMAIN cell.p) \ WeightNames(cell) : cell'.p[n] = cell.p[n]
          /\ [cell' EXCEPT !.p = cell.p, !.old = cell.old] = cell
      ]_vars

\* C8 happens: sparsify() has just run on a FastGRNN cell with a target below
\* 1, it zeroed entries, and the snapshot holds the thresholded tensor
SparsifySnapshotWitness ==
    /\ last = "sparsify"
    /\ cell.cellType = "FastGRNN"
    /\ \E n \in WeightNames(cell) :
          /\ RLess(TargetOf(cell, n), R(1))
          /\ Support(cell.p[n]) # Positions(cell.p[n])
          /\ Support(cell.p[n]) # {}
          /\ cell.old[OldName(n)] = Some(cell.p[n])

\* C9: on a FastGRNN cell with both targets below 1 on which sparsify() has
\* run, whatever training updates and forward calls came since, the snapshot
\* is still the weights that sparsify() left, and a step of
\* sparsifyWithSupport() completes and leaves in every weight-class parameter
\* zero where the snapshot is zero and, where the snapshot is not zero, the
\* value the parameter held just before the step.
SupportRestored ==
    [][(/\ SupportStep
        /\ pruned # None
        /\ RLess(cell.wSparsity, R(1))
        /\ RLess(cell.uSparsity, R(1))) =>
          /\ raised' = None
          /\ \A n \in WeightNames(cell) :
                /\ cell.old[OldName(n)] = Some(pruned[1][n])
                /\ cell'.old[OldName(n)] = cell.old[OldName(n)]
                /\ cell'.p[n].shape = cell.p[n].shape
                /\ \A q \in Positions(cell.p[n]) :
                      Flat(cell'.p[n], q) =
                          IF IsZero(Flat(pruned[1][n], q)) THEN R(0)
                          ELSE Flat(cell.p[n], q)
      ]_vars

\* C9 happens: after sparsify() and a training update that wrote a nonzero
\* value into a pruned position and changed a kept one, sparsifyWithSupport()
\* has run: the weight is the trained tensor cut to the snapshot's support
SupportRestoredWitness ==
    /\ last = "sparsifyWithSupport"
    /\ pruned # None
    /\ raised = None
    /\ RLess(cell.wSparsity, R(1))
    /\ RLess(cell.uSparsity, R(1))
    /\ \E n \in WeightNames(cell), seed \in 0..MaxSeed :
          LET trained == Trained(seed, cell.p[n])
          IN /\ cell.p[n] = supportBasedThreshold(trained, pruned[1][n])
             /\ Support(trained) \ Support(pruned[1][n]) # {}
             /\ cell.p[n] # pruned[1][n]
             /\ Support(cell.p[n]) # {}

\* the number of entries a target s keeps of a tensor
KeepCount(A, s) == CeilMul(s, numel(A))

StrictTarget(s) == RLess(R(0), s) /\ RLess(s, R(1))

\* what is left of A in B is a selection by magnitude: every entry of B is
\* the entry of A or zero, and no zeroed entry of A is larger in magnitude
\* than a kept one
TopSelection(A, B) ==
    /\ B.shape = A.shape
    /\ \A q \in Positions(A) : Flat(B, q) = Flat(A, q) \/ IsZero(Flat(B, q))
    /\ \A q \in Support(B), t \in Positions(A) \ Support(B) :
          ~RLess(RAbs(Flat(A, q)), RAbs(Flat(A, t)))

\* C10 as claimed: after sparsify() with a target s strictly between 0 and 1,
\* every weight-class tensor of n elements has exactly ceil(s*n) nonzero
\* entries, the ceil(s*n) entries of largest magnitude of the tensor before
\* the call.
ExactlyCeilNonzero ==
    [][SparsifyStep =>
          \A n \in WeightNames(cell) :
             StrictTarget(TargetOf(cell, n)) =>
                /\ Cardinality(Support(cell'.p[n])) =
                       KeepCount(cell.p[n], TargetOf(cell, n))
                /\ TopSelection(cell.p[n], cell'.p[n])
      ]_vars

\* C10, amended: after sparsify() with a target s strictly between 0 and 1,
\* every weight-class tensor of n elements (each factor of a low-rank class
\* separately) has as many nonzero entries as the smaller of ceil(s*n) and
\* the number of nonzero entries it had before the call, so at most
\* ceil(s*n), and exactly ceil(s*n) when it had that many; the entries left
\* are entries of largest magnitude of the tensor before the call, and of
\* entries of equal magnitude the ones at smaller flattened index are kept.
TopMagnitudeKept ==
    [][SparsifyStep =>
          \A n \in WeightNames(cell) :
             StrictTarget(TargetOf(cell, n)) =>
                LET A == cell.p[n]
                    B == cell'.p[n]
                    k == KeepCount(A, TargetOf(cell, n))
                    nnz == Cardinality(Support(A))
                IN /\ Cardinality(Support(B)) = IF nnz < k THEN nnz ELSE k
                   /\ TopSelection(A, B)
                   /\ \A q \in Support(B), t \in Support(A) \ Support(B) :
                         RAbs(Flat(A, q)) = RAbs(Flat(A, t)) => q < t
      ]_vars

\* C10 happens: sparsify() has just run with a target strictly between 0 and
\* 1 on a tensor that a training update left with fewer nonzero entries than
\* the target keeps, and the result has fewer nonzero entries than ceil(s*n)
TopMagnitudeWitness ==
    /\ last = "sparsify"
    /\ \E n \in WeightNames(cell) :
          /\ StrictTarget(TargetOf(cell, n))
          /\ Support(cell.p[n]) # {}
          /\ Cardinality(Support(cell.p[n])) < KeepCount(cell.p[n], TargetOf(cell, n))
    /\ \E n \in WeightNames(cell) :
          /\ StrictTarget(TargetOf(cell, n))
          /\ Cardinality(Support(cell.p[n])) = KeepCount(cell.p[n], TargetOf(cell, n))

\* ------------------------------------------------------------------------
\* Properties of the snapshots of a FastGRNNCell
\* ------------------------------------------------------------------------
IsFastGRNN == cell.cellType = "FastGRNN"

\* the snapshot attributes of the weights the cell has
SnapshotNames(self) == {OldName(n) : n \in WeightNames(self)}

\* C11: the snapshots of a FastGRNNCell change only when sparsify() runs:
\* forward, getVars, getModelSize, sparsifyWithSupport and an external in-place
\* update of the weights leave every snapshot as it was.
SnapshotFrame ==
    [][(IsFastGRNN /\ ~SparsifyStep) => cell'.old = cell.old]_vars

\* C11 happens: a snapshot was taken by sparsify(), a training update has
\* since written other values into the weight it was taken from, and the
\* snapshot still holds the thresholded values
SnapshotFrameWitness ==
    /\ IsFastGRNN
    /\ last = "train"
    /\ pruned # None
    /\ \E n \in WeightNames(cell) :
          /\ cell.old[OldName(n)] = Some(pruned[1][n])
          /\ cell.p[n] # pruned[1][n]

\* C12: in every reachable state of a FastGRNNCell a weight class has its
\* snapshot exactly when the sparsity target of the class is below 1.0.
SnapshotIffSparse ==
    IsFastGRNN =>
       /\ \A n \in WeightNames(cell) :
             (cell.old[OldName(n)] # None) <=> RLess(TargetOf(cell, n), R(1))
       /\ \A k \in DOMAIN cell.old \ SnapshotNames(cell) : cell.old[k] = None

\* C12 happens: sparsify() has run on a cell whose W class has a target below
\* 1.0 and whose U class has the target 1.0; W has a snapshot and U has none
SnapshotIffSparseWitness ==
    /\ IsFastGRNN
    /\ last = "sparsify"
    /\ RLess(cell.wSparsity, R(1))
    /\ cell.uSparsity = R(1)
    /\ \A n \in Range(WNames(cell)) : cell.old[OldName(n)] # None
    /\ \A n \in Range(UNames(cell)) : cell.old[OldName(n)] = None

\* C13 as claimed: on a cell whose two sparsity targets are 1.0, each of
\* sparsify() and sparsifyWithSupport() completes without an error and leaves
\* every weight as it was.
NoPruningIsNoOp ==
    [][((SparsifyStep \/ SupportStep)
        /\ cell.wSparsity = R(1) /\ cell.uSparsity = R(1))
          => (raised' = None /\ Weights(cell') = Weights(cell))]_vars

\* the part of C13 that holds: sparsify() at the targets 1.0 completes and
\* leaves every weight as it was
SparsifyAtOneIsNoOp ==
    [][(SparsifyStep /\ cell.wSparsity = R(1) /\ cell.uSparsity = R(1))
          => (raised' = None /\ Weights(cell') = Weights(cell))]_vars

\* sparsifyWithSupport() on a cell with both targets 1.0 has ended with
\* AttributeError
SupportAtOneRaised ==
    /\ IsFastGRNN
    /\ last = "sparsifyWithSupport"
    /\ cell.wSparsity = R(1) /\ cell.uSparsity = R(1)
    /\ raised = Some("AttributeError")

\* ------------------------------------------------------------------------
\* Properties of the accessors
\* ------------------------------------------------------------------------
\* the sum of the element counts of the parameters a list names, each once
RECURSIVE ElementCount(_, _)
ElementCount(self, names) ==
    IF names = << >> THEN 0
    ELSE numel(self.p[Head(names)]) + ElementCount(self, Tail(names))

ModelSizeStep == last' = "getModelSize"

\* C14 as claimed: on a FastGRNNCell or FastRNNCell of any rank configuration
\* with both sparsity targets 1.0, getModelSize() returns the sum of the
\* element counts of the parameters getVars() lists, each counted once.
ModelSizeIsElementCount ==
    [][(ModelSizeStep /\ cell.wSparsity = R(1) /\ cell.uSparsity = R(1))
          => /\ raised' = None
             /\ result' = Some(ElementCount(cell, CellGetVars(cell)))]_vars

\* the class a parameter name belongs to, in the order of the list
ClassOf(n) ==
    CASE n \in {"W", "W1", "W2", "W3", "W4"} -> 1
      [] n \in {"U", "U1", "U2", "U3", "U4"} -> 2
      [] n \in {"bias_f", "bias_i", "bias_c", "bias_o", "bias_r",
                "bias_gate", "bias_update"} -> 3
      [] n \in {"zeta", "nu", "alpha", "beta"} -> 4

\* the number of weight matrices per class of a variant without a rank
BaseCount(type) ==
    CASE type \in {"FastGRNN", "FastRNN"} -> 1
      [] type = "UGRNNLR" -> 2
      [] type = "GRULR" -> 3
      [] type = "LSTMLR" -> 4

NamesOfClass(list, c) == {q \in 1..Len(list) : ClassOf(list[q]) = c}

\* list names every parameter of the cell once, class by class, with as many
\* weights per class as the variant and the ranks give, a shared factor at the
\* head of its class and the numbered weights in ascending order
FixedOrder(self, list) ==
    LET nW == BaseCount(self.cellType) + (IF self.wRank = None THEN 0 ELSE 1)
        nU == BaseCount(self.cellType) + (IF self.uRank = None THEN 0 ELSE 1)
    IN /\ Range(list) = DOMAIN self.p
       /\ Len(list) = Cardinality(DOMAIN self.p)
       /\ \A q \in 1..(Len(list) - 1) : ClassOf(list[q]) <= ClassOf(list[q + 1])
       /\ self.num_weight_matrices = << nW, nU >>
       /\ NamesOfClass(list, 1) = 1..nW
       /\ NamesOfClass(list, 2) = (nW + 1)..(nW + nU)
       /\ "W" \in DOMAIN self.p => list[1] = "W"
       /\ "U" \in DOMAIN self.p => list[nW + 1] = "U"
       /\ \A q \in 1..(nW + nU - 1) :
             (list[q] \notin {"W", "U"} /\ ClassOf(list[q]) = ClassOf(list[q + 1]))
                => \E g \in 1..3 : /\ list[q] \in {"W" \o ToString(g), "U" \o ToString(g)}
                                   /\ list[q + 1] \in {"W" \o ToString(g + 1),
                                                       "U" \o ToString(g + 1)}

VarsCalls == {"getVars", "BaseRNN.getVars"}

\* C15: getVars() of every cell variant and rank configuration lists the
\* parameters in one fixed order: the W-class weights (a shared factor first),
\* the U-class weights, the biases, the scalar gate parameters, with
\* num_weight_matrices[0] + num_weight_matrices[1] weight entries (the base
\* count of the variant plus one per class with a rank); a repeated call and
\* BaseRNN.getVars return the same list.
GetVarsFixedOrder ==
    [][(last' \in VarsCalls) =>
          /\ raised' = None
          /\ result' # None
          /\ FixedOrder(cell, result'[1])
          /\ (last \in VarsCalls) => result' = result
      ]_vars

\* C15 happens: the list of an LSTM cell with a rank for W and none for U has
\* come back through the unroller, with five W entries and four U entries
GetVarsWitness ==
    /\ last = "BaseRNN.getVars"
    /\ cell.cellType = "LSTMLR"
    /\ cell.wRank # None /\ cell.uRank = None
    /\ result # None
    /\ Len(result[1]) = 13
    /\ result[1][1] = "W" /\ result[1][6] = "U1"

\* ------------------------------------------------------------------------
\* Properties of gen_nonlinearity
\* ------------------------------------------------------------------------
NonlinStep == last' = "gen_nonlinearity"

\* C16 as claimed: gen_nonlinearity with a selector that is none of the
\* recognized names and is not callable fails with the InvalidArgument error,
\* the ValueError that lists the valid names, and returns no tensor.
InvalidSelectorRaisesValueError ==
    [][(NonlinStep /\ call[1].nonlinearity \notin NonlinNames
                   /\ ~callable(call[1].nonlinearity))
          => (raised' = Some("ValueError") /\ result' = None)]_vars

\* the part of C16 that holds: such a call fails and returns no tensor
InvalidSelectorFails ==
    [][(NonlinStep /\ call[1].nonlinearity \notin NonlinNames
                   /\ ~callable(call[1].nonlinearity))
          => (raised' # None /\ result' = None)]_vars

\* clip(x, lo, hi) of one element
ClipOf(x, lo, hi) ==
    IF RLess(x, R(lo)) THEN R(lo) ELSE IF RLess(R(hi), x) THEN R(hi) ELSE x

\* B is A with every element shifted by shift, divided by div and clipped
IsClipOf(B, A, shift, div, lo, hi) ==
    /\ B.shape = A.shape
    /\ \A q \in Positions(A) :
          /\ Flat(B, q) = ClipOf(RDivInt(RAdd(Flat(A, q), R(shift)), div), lo, hi)
          /\ ~RLess(Flat(B, q), R(lo))
          /\ ~RLess(R(hi), Flat(B, q))

\* C17: gen_nonlinearity(A, 'quantTanh') = clip(A, -1, 1), with 'quantSigm' it is
\* clip((A+1)/2, 0, 1) and with 'quantSigm4' clip((A+2)/4, 0, 1), elementwise,
\* so the outputs lie in [-1,1], [0,1] and [0,1]; the caller's tensor A is not
\* modified.
QuantClip ==
    [][(NonlinStep /\ call[1].nonlinearity \in {"quantTanh", "quantSigm", "quantSigm4"})
          => LET A == call[1].A
                 nl == call[1].nonlinearity
             IN /\ raised' = None
                /\ result' # None
                /\ nl = "quantTanh" => IsClipOf(result'[1], A, 0, 1, -1, 1)
                /\ nl = "quantSigm" => IsClipOf(result'[1], A, 1, 2, 0, 1)
                /\ nl = "quantSigm4" => IsClipOf(result'[1], A, 2, 4, 0, 1)
                /\ call'[1].A = A
      ]_vars

\* C17 happens: quantSigm4 has returned for a tensor with one element below -2
\* and one above 2, with 0 and 1 at their positions, and the caller's tensor
\* still has the two elements
QuantClipWitness ==
    /\ last = "gen_nonlinearity"
    /\ call[1].nonlinearity = "quantSigm4"
    /\ result # None
    /\ \E q, t \in Positions(call[1].A) :
          /\ Flat(call[1].A, q) = R(-3) /\ Flat(result[1], q) = R(0)
          /\ Flat(call[1].A, t) = R(3) /\ Flat(result[1], t) = R(1)

\* C18 as claimed: for every supported name, 'relu' included,
\* gen_nonlinearity(A, name) returns a tensor of the shape of A, and with
\* 'relu' the result is max(A, 0) at every position, for every tensor A.
SupportedNamesReturn ==
    [][(NonlinStep /\ call[1].nonlinearity \in NonlinNames)
          => /\ raised' = None
             /\ result' # None
             /\ result'[1].shape = call[1].A.shape
             /\ call[1].nonlinearity = "relu" =>
                   \A q \in Positions(call[1].A) :
                      Flat(result'[1], q) = RMax(Flat(call[1].A, q), R(0))
      ]_vars

\* the part of C18 that holds: every supported name but 'relu' returns a
\* tensor of the shape of A
OtherNamesReturn ==
    [][(NonlinStep /\ call[1].nonlinearity \in NonlinNames \ {"relu"})
          => /\ raised' = None
             /\ result' # None
             /\ result'[1].shape = call[1].A.shape
      ]_vars

\* ------------------------------------------------------------------------
\* Purity of the unroller
\* ------------------------------------------------------------------------
\* the cell states of a sequence of states of a dual-state cell
CellStates(states) == [t \in 1..Len(states) |-> states[t].second]

\* the entries of a returned buffer, one per time step
Entries(buffer, T) == [t \in 1..T |-> Entry(buffer, t - 1)]

\* the returned value is what the arguments of the call and the weights of the cell
\* determine: per time step the state of the recurrence started from the
\* supplied initial state (zeros where none was supplied)
DeterminedByArguments ==
    LET states == Tail(Trajectory(call[1].T))
        ret == frame.ret[1]
    IN IF IsDual
       THEN /\ Entries(ret.first, call[1].T) = Hiddens(states)
            /\ Entries(ret.second, call[1].T) = CellStates(states)
       ELSE Entries(ret, call[1].T) = Hiddens(states)

\* C19: the unroller and the cell forward are pure with respect to the cell:
\* no step changes a weight, bias, scalar gate parameter or snapshot; between
\* calls the unroller holds no hidden or cell state; so what a call returns is
\* determined by its input, its initial state and the weights, whatever calls
\* ran before it.
ForwardIsPure ==
    /\ [][/\ cell' = cell
          /\ batch_first' = batch_first
          /\ frame'.pc = "idle" => frame' = Idle
         ]_vars
    /\ [](frame.pc = "done" => DeterminedByArguments)

\* C19 happens: a call on two sequences of two steps with a supplied initial
\* state has returned, its last output is not its first, and the cell is one
\* with low-rank factors
ForwardIsPureWitness ==
    /\ frame.pc = "done"
    /\ call[1].B = 2 /\ call[1].T = 2
    /\ call[1].hiddenState # None
    /\ cell.wRank # None
    /\ LET out == IF IsDual THEN frame.ret[1].first ELSE frame.ret[1]
       IN /\ Entry(out, 0) # Entry(out, 1)
          /\ Entry(out, 1) = HiddenOf(Trajectory(2)[3])

\* ------------------------------------------------------------------------
\* The low-rank factors
\* ------------------------------------------------------------------------
\* the weights of a class that has a rank, by the name the full-rank cell
\* gives the matrix they stand for
LowRankWeights(c) ==
    (IF c.wRank = None THEN {}
     ELSE IF c.cellType \in {"FastGRNN", "FastRNN"} THEN {"W"}
     ELSE {n \in {"W1", "W2", "W3", "W4"} : n \in DOMAIN c.p})
    \cup
    (IF c.uRank = None THEN {}
     ELSE IF c.cellType \in {"FastGRNN", "FastRNN"} THEN {"U"}
     ELSE {n \in {"U1", "U2", "U3", "U4"} : n \in DOMAIN c.p})

\* the product the class documentation gives for the weight n:
\* W = matmul(W_1, W_2), U = matmul(U_1, U_2) for FastGRNNCell and FastRNNCell,
\* Wi = matmul(W, W_i), Ui = matmul(U, U_i) for the other cells
DocumentedProduct(c, n) ==
    CASE n = "W" -> Matmul(c.p.W1, c.p.W2)
      [] n = "U" -> Matmul(c.p.U1, c.p.U2)
      [] n \in {"W1", "W2", "W3", "W4"} -> Matmul(c.p.W, c.p[n])
      [] n \in {"U1", "U2", "U3", "U4"} -> Matmul(c.p.U, c.p[n])

\* the shape of the parameter n of the same cell constructed without a rank
FullRankShape(c, n) ==
    IF n \in {"U", "U1", "U2", "U3", "U4"} THEN << c.hidden_size, c.hidden_size >>
    ELSE IF c.cellType = "FastGRNN" THEN << c.hidden_size, c.input_size >>
    ELSE << c.input_size, c.hidden_size >>

ComposesAsDocumented(c, n) ==
    LET P == DocumentedProduct(c, n)
    IN /\ ~IsErr(P)
       /\ P.shape = FullRankShape(c, n)
       /\ P = FullRankOf(c).p[n]

\* C20 as claimed: for every cell constructed with a rank the product of the
\* first factor by the second, in the documented order, is defined, has the
\* shape of the full-rank parameter and is the matrix forward applies.
FactorsComposeAsDocumented ==
    \A n \in LowRankWeights(cell) : ComposesAsDocumented(cell, n)

\* the part of C20 that holds: the factors of every variant but FastGRNNCell
\* compose as documented
OtherFactorsCompose ==
    cell.cellType # "FastGRNN" =>
       \A n \in LowRankWeights(cell) : ComposesAsDocumented(cell, n)

\* for FastGRNNCell it is the product in the other order that has the
\* full-rank shape and that forward applies
FastGRNNFactorsReversed ==
    (cell.cellType = "FastGRNN" /\ cell.wRank # None) =>
       LET P == Matmul(cell.p.W2, cell.p.W1)
       IN P.shape = FullRankShape(cell, "W") /\ P = FullRankOf(cell).p.W

\* ------------------------------------------------------------------------
\* The gates of GRULRCell
\* ------------------------------------------------------------------------
IsGRU == cell.cellType = "GRULR"

\* gate_nl(x @ Wn + h @ Un + b) with the full matrices of the cell
GRUGate(c, full, x, h, Wn, Un, b) ==
    gen_nonlinearity(TAdd(TAdd(Matmul(x, full[Wn]), Matmul(h, full[Un])), c.p[b]),
                     c.gate_nonlinearity)

\* update_nl(x @ W3 + u + bias_update), u the U3 term, with the full W3
GRUCandidate(c, full, x, u) ==
    gen_nonlinearity(TAdd(TAdd(Matmul(x, full.W3), u), c.p.bias_update),
                     c.update_nonlinearity)

\* out is the step z*h + (1-z)*candidate with r and z the gates of the
\* unmodified h and the reset gate applied to h before the third U projection
\* (before = TRUE) or to the result of the projection (before = FALSE)
IsGRUStep(c, x, h, out, before) ==
    \A full \in {FullRankOf(c).p} :
       \A r \in {GRUGate(c, full, x, h, "W1", "U1", "bias_r")},
          z \in {GRUGate(c, full, x, h, "W2", "U2", "bias_gate")} :
          \A u \in {IF before THEN Matmul(TMul(r, h), full.U3)
                     ELSE TMul(r, Matmul(h, full.U3))} :
             out = TAdd(TMul(z, h), TMul(OneMinus(z), GRUCandidate(c, full, x, u)))

SupportIdempotent ==
    [][(last = "sparsifyWithSupport" /\ SupportStep)
          => (Weights(cell') = Weights(cell) /\ raised' = raised)]_vars

\* C22 happens: sparsifyWithSupport() has completed on weights a training
\* update had filled in again, it has zeroed entries of them, and a second
\* application, which the state allows, gives the same weights
SupportIdempotentWitness ==
    /\ IsFastGRNN
    /\ last = "sparsifyWithSupport"
    /\ raised = None
    /\ pruned # None
    /\ Weights(cell) # pruned[1]
    /\ \E n \in WeightNames(cell) :
          /\ Support(cell.p[n]) # {}
          /\ Support(cell.p[n]) # Positions(cell.p[n])
          /\ Support(cell.p[n]) \subseteq Support(cell.old[OldName(n)][1])
    /\ frame.pc = "idle"
    /\ Weights(sparsifyWithSupport(cell).self) = Weights(cell)

\* ------------------------------------------------------------------------
\* Construction of the sequence modules
\* ------------------------------------------------------------------------
ConstructStep == last = "start" /\ last' = "__init__"

\* the module was constructed: it holds the cell built from the arguments
Constructed(a, c, b) ==
    /\ c = Construct(CellClassOf(a.wrapper),
                     << a.gate_nonlinearity, a.update_nonlinearity >>, a.wRank, a.uRank)
    /\ c.cellType = CellClassOf(a.wrapper)
    /\ b = a.batch_first

\* C23 as claimed: constructing the FastRNN sequence module succeeds and
\* yields a BaseRNN over a FastRNNCell built with the given update
\* nonlinearity, ranks, alphaInit and betaInit; every keyword the module
\* forwards is a keyword FastRNNCell.__init__ accepts.
FastRNNConstructs ==
    [][(ConstructStep /\ call[1].wrapper = "FastRNN")
          => /\ raised' = None
             /\ Constructed(call[1], cell', batch_first')
             /\ ForwardedKeywords("FastRNN") \subseteq InitKeywords("FastRNN")
      ]_vars

\* what holds instead: the other four sequence modules construct their cell
OtherWrappersConstruct ==
    [][(ConstructStep /\ call[1].wrapper # "FastRNN")
          => (raised' = None /\ Constructed(call[1], cell', batch_first'))]_vars

\* the construction of FastRNN has ended with TypeError and there is no cell
FastRNNConstructionRaised ==
    /\ last = "__init__"
    /\ call[1].wrapper = "FastRNN"
    /\ raised = Some("TypeError")
    /\ cell = None

\* ------------------------------------------------------------------------
\* Unrolling in two calls
\* ------------------------------------------------------------------------
\* the time steps lo .. hi - 1 of a sequence tensor (from 0), in its layout
TimeSlice(bf, A, lo, hi) ==
    IF bf
    THEN LET F(b, t, k) == A.v[b][lo + t][k]
         IN Tensor3(A.shape[1], hi - lo, A.shape[3], F)
    ELSE LET F(t, b, k) == A.v[lo + t][b][k]
         IN Tensor3(hi - lo, A.shape[2], A.shape[3], F)

\* two sequence tensors one after the other along the time axis
ConcatTime(bf, A, B) ==
    LET TA == IF bf THEN A.shape[2] ELSE A.shape[1]
        TB == IF bf THEN B.shape[2] ELSE B.shape[1]
    IN IF bf
       THEN LET F(b, t, k) == IF t <= TA THEN A.v[b][t][k] ELSE B.v[b][t - TA][k]
            IN Tensor3(A.shape[1], TA + TB, A.shape[3], F)
       ELSE LET F(t, b, k) == IF t <= TA THEN A.v[t][b][k] ELSE B.v[t - TA][b][k]
            IN Tensor3(TA + TB, A.shape[2], A.shape[3], F)

\* the hidden (sel = "first") or cell (sel = "second") buffer of a returned value
BufferOf(ret, sel) == IF IsDual THEN ret[sel] ELSE ret

\* the call on the first T1 steps of the input of the current call
FirstPart(T1) ==
    BaseRNN_forward(cell, batch_first, TimeSlice(batch_first, call[1].input, 0, T1),
                    call[1].hiddenState, call[1].cellState)

\* the call on the remaining steps, started from the last entries of the
\* buffer(s) the first call returned
SecondPart(T1, first) ==
    BaseRNN_forward(cell, batch_first,
                    TimeSlice(batch_first, call[1].input, T1, call[1].T),
                    Some(InputAt(batch_first, BufferOf(first.ret[1], "first"), T1 - 1)),
                    IF IsDual
                    THEN Some(InputAt(batch_first, BufferOf(first.ret[1], "second"), T1 - 1))
                    ELSE call[1].cellState)

\* the outputs of the two calls, one after the other, are the outputs ret
SplitGives(first, second, ret) ==
    /\ first.pc = "done"
    /\ second.pc = "done"
    /\ ConcatTime(batch_first, BufferOf(first.ret[1], "first"),
                  BufferOf(second.ret[1], "first")) = BufferOf(ret, "first")
    /\ IsDual => ConcatTime(batch_first, BufferOf(first.ret[1], "second"),
                            BufferOf(second.ret[1], "second")) = BufferOf(ret, "second")

\* C24: unrolling composes over time: for every cell, input and initial state,
\* the outputs of a call on T1 + T2 steps are the outputs of a call on the
\* first T1 steps followed by those of a call on the remaining T2 steps that
\* starts from the last entry of the first call's hidden (and cell) buffer;
\* so the outputs at times 0..t depend only on the inputs at times 0..t.
ComposesOverTime ==
    [](frame.pc = "done" =>
         \A T1 \in 1..call[1].T :
             \A first \in {FirstPart(T1)} :
                 \A second \in {SecondPart(T1, first)} :
                     SplitGives(first, second, frame.ret[1]))

\* C24 happens: a call on two sequences of several steps with a supplied
\* initial state has returned outputs that differ from step to step, and the
\* call on the steps after the first, started from the first output, returns
\* the rest of them
ComposesWitness ==
    /\ frame.pc = "done"
    /\ call[1].T >= 2 /\ call[1].B = 2
    /\ call[1].hiddenState # None
    /\ \E out \in {BufferOf(frame.ret[1], "first")},
          second \in {SecondPart(1, FirstPart(1))} :
          /\ InputAt(batch_first, out, 0) # InputAt(batch_first, out, 1)
          /\ second.pc = "done"
          /\ BufferOf(second.ret[1], "first")
                = TimeSlice(batch_first, out, 1, call[1].T)
          /\ InputAt(batch_first, BufferOf(second.ret[1], "first"), 0)
                # Zeros2(2, cell.hidden_size)

====
